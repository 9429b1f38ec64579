----------------------------- MODULE LegacyProxy -----------------------------
(***************************************************************************)
(* The legacy protocol of wsproxy.ts (raw telnet, no session) beside the   *)
(* typed protocol of SessionProxy, on the same WebSockets and the same     *)
(* capacity counters.  openLegacyConnection, initT, rejectLegacy and       *)
(* closeSocket, the teardown both protocols share.                         *)
(***************************************************************************)
EXTENDS SessionProxy

CONSTANTS
  LConn,       \* legacy connect frames that pass the one-per-socket check
  LSocketOf,   \* the socket such a frame arrives on
  MaxTimers    \* bound: delayed closeSocket calls pending per socket

ASSUME LegacyAssumption ==
  /\ IsFiniteSet(LConn) /\ IsFiniteSet(Socket)
  /\ LSocketOf \in [LConn -> Socket]
  /\ MaxTimers \in Nat
  /\ None \notin LConn

VARIABLES
  lphase,      \* where a legacy connect is: "up" has s.ts, "dying" was
               \* destroyed or failed and awaits its 'close' event
  aborted,     \* controllers aborted while their DNS answer is outstanding
  pendT,       \* s.pendingMudTransport
  ts,          \* s.ts
  counted,     \* s.legacyCountedIp is set
  lost,        \* history: connects counted over a legacyCountedIp still set,
               \* whose former count nothing gives back
  timers,      \* 500 ms SOCKET_CLOSE_DELAY_MS timers pending on a socket
  errored      \* sockets whose 'error' event fired and 'close' has not

legacyVars == <<lphase, aborted, pendT, ts, counted, lost, timers, errored>>
allVars == <<vars, legacyVars>>

LInit ==
  /\ Init
  /\ lphase = [l \in LConn |-> "none"]
  /\ aborted = {}
  /\ pendT = [s \in Socket |-> None]
  /\ ts = [s \in Socket |-> None]
  /\ counted = [s \in Socket |-> FALSE]
  /\ lost = {}
  /\ timers = [s \in Socket |-> 0]
  /\ errored = {}

LIPOf(l) == AddressOf[LSocketOf[l]]

(* A frame can still be read from the socket. *)
Receiving(s) == open[s] /\ s \notin errored

-----------------------------------------------------------------------------
(* incrementIPCount for a legacy connect, then releasePendingDial of the   *)
(* reservation it held (none outside arbitrary mode: it is taken and       *)
(* released in the same macrotask).  legacyCountedIp is one field: a       *)
(* connect accepted after a failed one, before the closeSocket of the      *)
(* failed one ran, writes over its count.                                  *)
CountLegacy(l) ==
  LET i == LIPOf(l) IN
  /\ counted' = [counted EXCEPT ![LSocketOf[l]] = i # UnknownIP]
  /\ lost' = IF counted[LSocketOf[l]] THEN lost \cup {l} ELSE lost
  /\ est' = IF i # UnknownIP THEN [est EXCEPT ![i] = @ + 1] ELSE est
  /\ globalEst' = IF i # UnknownIP THEN globalEst + 1 ELSE globalEst

ReleaseLegacy(l) ==
  LET i == LIPOf(l) IN
  /\ pend' = [pend EXCEPT ![i] = Monus1(@)]
  /\ globalPend' = IF pend[i] > 0 THEN Monus1(globalPend) ELSE globalPend

LegacyRefused(l) ==
  \/ est[LIPOf(l)] + pend[LIPOf(l)] >= MaxPerIP
  \/ globalEst + globalPend >= MaxGlobal

(* rejectLegacy: the reason is sent, closeSocket runs 500 ms later. *)
RejectLegacy(s) ==
  /\ timers[s] < MaxTimers
  /\ timers' = [timers EXCEPT ![s] = @ + 1]

Busy(s) == ts[s] # None \/ pendT[s] # None \/ sockSess[s] # None

ClearPending(l) ==
  pendT' = [pendT EXCEPT ![LSocketOf[l]] = IF @ = l THEN None ELSE @]

(* openLegacyConnection on a socket that is in use, or refused by limits. *)
LegacyConnectRejected(l) ==
  /\ lphase[l] = "none" /\ Receiving(LSocketOf[l])
  /\ Busy(LSocketOf[l]) \/ LegacyRefused(l)
  /\ RejectLegacy(LSocketOf[l])
  /\ UNCHANGED <<vars, lphase, aborted, pendT, ts, counted, lost, errored>>

(* A legacy frame that is malformed, or names a target the policy refuses. *)
LegacyFrameRejected(s) ==
  /\ Receiving(s)
  /\ RejectLegacy(s)
  /\ UNCHANGED <<vars, lphase, aborted, pendT, ts, counted, lost, errored>>

MayConnectLegacy(l) ==
  /\ lphase[l] = "none" /\ Receiving(LSocketOf[l])
  /\ ~Busy(LSocketOf[l]) /\ ~LegacyRefused(l)

(* fixed and allowlist mode: authorised, counted and dialling at once. *)
LegacyConnectDial(l) ==
  /\ ~arbitrary /\ MayConnectLegacy(l)
  /\ CountLegacy(l)
  /\ lphase' = [lphase EXCEPT ![l] = "dialing"]
  /\ pendT' = [pendT EXCEPT ![LSocketOf[l]] = l]
  /\ UNCHANGED <<open, sessVars, mapVars, pend, globalPend, endVars, tracked,
                 aborted, ts, timers, errored>>

(* arbitrary mode: reserved, waiting for DNS. *)
LegacyConnectResolve(l) ==
  /\ arbitrary /\ MayConnectLegacy(l)
  /\ pend' = [pend EXCEPT ![LIPOf(l)] = @ + 1]
  /\ globalPend' = globalPend + 1
  /\ lphase' = [lphase EXCEPT ![l] = "dns"]
  /\ pendT' = [pendT EXCEPT ![LSocketOf[l]] = l]
  /\ UNCHANGED <<open, sessVars, mapVars, est, globalEst, endVars, tracked,
                 aborted, ts, counted, lost, timers, errored>>

(* DNS allowed the address: count and dial, or release if closeSocket      *)
(* aborted the connect meanwhile.                                          *)
LegacyResolveAllowed(l) ==
  /\ lphase[l] = "dns"
  /\ ReleaseLegacy(l)
  /\ \/ /\ l \in aborted
        /\ lphase' = [lphase EXCEPT ![l] = "gone"]
        /\ UNCHANGED <<est, globalEst, counted, lost, pendT>>
     \/ /\ l \notin aborted
        /\ CountLegacy(l)
        /\ lphase' = [lphase EXCEPT ![l] = "dialing"]
        /\ pendT' = [pendT EXCEPT ![LSocketOf[l]] = IF @ = None THEN l ELSE @]
  /\ UNCHANGED <<open, sessVars, mapVars, endVars, tracked, aborted, ts, timers,
                 errored>>

LegacyResolveDenied(l) ==
  /\ lphase[l] = "dns"
  /\ ReleaseLegacy(l)
  /\ ClearPending(l)
  /\ RejectLegacy(LSocketOf[l])
  /\ lphase' = [lphase EXCEPT ![l] = "gone"]
  /\ UNCHANGED <<open, sessVars, mapVars, est, globalEst, endVars, tracked,
                 aborted, ts, counted, lost, errored>>

(* initT's onConnected *)
LegacyDialSucceeds(l) ==
  /\ lphase[l] = "dialing"
  /\ lphase' = [lphase EXCEPT ![l] = "up"]
  /\ ts' = [ts EXCEPT ![LSocketOf[l]] = l]
  /\ ClearPending(l)
  /\ UNCHANGED <<vars, aborted, counted, lost, timers, errored>>

(* initT's catch: the count stays until closeSocket runs 500 ms later. *)
LegacyDialFails(l) ==
  /\ lphase[l] = "dialing"
  /\ lphase' = [lphase EXCEPT ![l] = "gone"]
  /\ ClearPending(l)
  /\ RejectLegacy(LSocketOf[l])
  /\ UNCHANGED <<vars, aborted, ts, counted, lost, errored>>

(* telnet 'close', and 'error' (which 'close' follows): closeSocket in 500 ms *)
LegacyTelnetClosed(l) ==
  /\ lphase[l] \in {"up", "dying"}
  /\ lphase' = [lphase EXCEPT ![l] = "gone"]
  /\ RejectLegacy(LSocketOf[l])
  /\ UNCHANGED <<vars, aborted, pendT, ts, counted, lost, errored>>

LegacyTelnetError(l) ==
  /\ lphase[l] = "up"
  /\ lphase' = [lphase EXCEPT ![l] = "dying"]
  /\ RejectLegacy(LSocketOf[l])
  /\ UNCHANGED <<vars, aborted, pendT, ts, counted, lost, errored>>

-----------------------------------------------------------------------------
(* closeSocket.  A socket attached to a session is only detached; any      *)
(* other gives back its count, aborts a pending connect and destroys s.ts. *)

(* Mutant of GiveBackCount: the field is cleared but the count stays. *)
GiveBackCountNever(s) ==
  counted' = [counted EXCEPT ![s] = FALSE] /\ UNCHANGED <<est, globalEst, lost>>

GiveBackCount(s) ==
  LET i == AddressOf[s] IN
  /\ counted' = [counted EXCEPT ![s] = FALSE]
  /\ est' = IF counted[s] THEN [est EXCEPT ![i] = Monus1(@)] ELSE est
  /\ globalEst' = IF counted[s] /\ est[i] > 0 THEN Monus1(globalEst) ELSE globalEst
  /\ UNCHANGED lost

(* Mutant of TearDownUpstream: a pending connect is not aborted. *)
TearDownUpstreamNoAbort(s) ==
  /\ ts' = [ts EXCEPT ![s] = None]
  /\ lphase' = [l \in LConn |-> IF l = ts[s] /\ lphase[l] = "up" THEN "dying"
                                ELSE lphase[l]]
  /\ UNCHANGED <<pendT, aborted>>

TearDownUpstream(s) ==
  LET p == IF ts[s] = None THEN pendT[s] ELSE None IN
  /\ pendT' = IF p = None THEN pendT ELSE [pendT EXCEPT ![s] = None]
  /\ aborted' = IF p # None /\ lphase[p] = "dns" THEN aborted \cup {p} ELSE aborted
  /\ ts' = [ts EXCEPT ![s] = None]
  /\ lphase' = [l \in LConn |->
       IF l = p /\ lphase[l] = "dialing" THEN "gone"
       ELSE IF l = ts[s] /\ lphase[l] = "up" THEN "dying"
       ELSE lphase[l]]

CloseSocket(s) ==
  \/ /\ sockSess[s] # None
     /\ DetachSocket(s)
     /\ UNCHANGED <<lphase, aborted, pendT, ts, counted, lost>>
  \/ /\ sockSess[s] = None
     /\ GiveBackCount(s)
     /\ TearDownUpstream(s)
     /\ UNCHANGED <<sessVars, mapVars, pend, globalPend, endVars, tracked>>

SocketErrorEvent(s) ==
  /\ Receiving(s)
  /\ errored' = errored \cup {s}
  /\ CloseSocket(s)
  /\ UNCHANGED <<open, timers>>

SocketCloseEvent(s) ==
  /\ open[s]
  /\ open' = [open EXCEPT ![s] = FALSE]
  /\ errored' = errored \ {s}
  /\ CloseSocket(s)
  /\ UNCHANGED timers

CloseTimer(s) ==
  /\ timers[s] > 0
  /\ timers' = [timers EXCEPT ![s] = @ - 1]
  /\ CloseSocket(s)
  /\ UNCHANGED <<open, errored>>

-----------------------------------------------------------------------------
TypedStep ==
  /\ \/ \E c \in Conn, d \in ConnectTokens :
          /\ SocketOf[c] \notin errored
          /\ ConnectRefused(c, d) \/ ConnectDial(c, d) \/ ConnectResolve(c, d)
     \/ \E s \in Socket \ errored, c \in Conn, d \in ResumeTokens : Resume(s, c, d)
     \/ \E s \in Socket \ errored : Disconnect(s)
     \/ Upstream
     \/ Timers
  /\ UNCHANGED legacyVars

LegacyStep ==
  \E l \in LConn :
    \/ LegacyConnectRejected(l) \/ LegacyConnectDial(l) \/ LegacyConnectResolve(l)
    \/ LegacyResolveAllowed(l) \/ LegacyResolveDenied(l)
    \/ LegacyDialSucceeds(l) \/ LegacyDialFails(l)
    \/ LegacyTelnetClosed(l) \/ LegacyTelnetError(l)

SocketStep ==
  \E s \in Socket :
    \/ LegacyFrameRejected(s) \/ CloseTimer(s)
    \/ SocketErrorEvent(s) \/ SocketCloseEvent(s)

LNext == TypedStep \/ LegacyStep \/ SocketStep

LStep == LNext /\ UNCHANGED arbitrary /\ RecordLeft

LSpec == LInit /\ [][LStep]_<<allVars, arbitrary, left>>

-----------------------------------------------------------------------------
(* Properties.                                                             *)

(* The legacy fields of a socket and the shared counters are well typed:   *)
(* closeSocket, which runs once per 'error', 'close' and 500 ms timer,     *)
(* never takes a counter below zero.                                       *)
LTypeOK ==
  /\ TypeOK
  /\ lphase \in [LConn -> {"none", "dns", "dialing", "up", "dying", "gone"}]
  /\ aborted \subseteq LConn
  /\ pendT \in [Socket -> LConn \cup {None}]
  /\ ts \in [Socket -> LConn \cup {None}]
  /\ counted \in [Socket -> BOOLEAN]
  /\ lost \subseteq LConn
  /\ timers \in [Socket -> 0 .. MaxTimers]
  /\ errored \subseteq Socket

LegacyReserved(i) == {l \in LConn : lphase[l] = "dns" /\ LIPOf(l) = i}
LegacyCounted(i) == {s \in Socket : counted[s] /\ AddressOf[s] = i}
LegacyLost(i) == {l \in LConn : l \in lost /\ LIPOf(l) = i}
LegacyCharged(i) == Cardinality(LegacyCounted(i)) + Cardinality(LegacyLost(i))
LegacyUpstream(i) == {l \in LConn : lphase[l] \in {"dns", "dialing", "up"}
                                    /\ LIPOf(l) = i}

(* The two protocols together stay under maxPerIP upstream connections per *)
(* address, counting names being resolved, dials and open connections,     *)
(* whatever closes, aborts and 500 ms timers run in between.               *)
SharedCapacityBounded ==
  \A i \in IP \ {UnknownIP} :
    Cardinality(FromIP(Held, i)) + Cardinality(LegacyUpstream(i)) <= MaxPerIP

(* With both protocols on the counters, every reservation belongs to one   *)
(* connect being resolved or dialled, and every established count to one   *)
(* session, to one socket's legacyCountedIp, or to a count a second legacy *)
(* connect wrote over, which is the one way a count is lost: nothing else  *)
(* is released twice or never.                                             *)
SharedCountersExact ==
  \A i \in IP :
    /\ pend[i] = Cardinality(FromIP(InFlightSet, i)) + Cardinality(LegacyReserved(i))
    /\ est[i] = Cardinality(FromIP(CountedSet, i)) + LegacyCharged(i)

(* The counters both protocols share are exact up to the counts lost, and  *)
(* keep the upstream connections of an address under its limit.            *)
SharedCapacityExact == SharedCountersExact /\ SharedCapacityBounded

(* The 'close' event of a WebSocket that is not in a typed session tears   *)
(* down whatever its legacy connects opened, its address is no longer      *)
(* charged, and a connect it cut off in DNS never comes up later (the      *)
(* continuation of openLegacyConnection runs when the socket is gone).     *)
ClosedIsTornDown ==
  [][/\ \A s \in Socket : open[s] /\ ~open'[s] /\ sockSess[s] = None =>
          /\ ~counted'[s]
          /\ \A l \in LConn : LSocketOf[l] = s =>
               /\ lphase'[l] \notin {"dialing", "up"}
               /\ lphase'[l] = "dns" => l \in aborted'
     /\ \A l \in aborted : lphase'[l] \notin {"dialing", "up"}]_allVars

-----------------------------------------------------------------------------
(* A legacy connection is "counted against maxPerIP for the lifetime of    *)
(* the socket and released when the socket closes"                         *)
(* (docs/mud-proxy-guide.md:186): an address without open sockets and      *)
(* sessions is charged nothing.                                            *)
ReleasedOnClose ==
  \A i \in IP :
    /\ \A s \in Socket : AddressOf[s] = i => ~open[s]
    /\ FromIP(CountedSet, i) = {}
    => est[i] = 0

=============================================================================
