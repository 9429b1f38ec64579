---------------------------- MODULE MudTransport ----------------------------
(***************************************************************************)
(* connectMudTransport (mud-transport.ts): one dial of a MUD, over TLS, in *)
(* plain text, or over TLS with a fallback to plain text.  Its promise     *)
(* settles once, hands over one socket or none, and owns two timers and    *)
(* the listeners of up to two sockets on the way.                          *)
(*                                                                         *)
(* A socket's events reach the connector only while its listeners are      *)
(* attached; 'close' follows 'error' and destroy() in a later macrotask.   *)
(***************************************************************************)
CONSTANT Modes   \* the values of MUD_TLS_MODE considered

ASSUME ModesAssumption == Modes \subseteq {"plain", "prefer", "required"}

VARIABLES
  mode,                \* options.mode
  outcome,             \* of the promise; "idle" before the call
  reason,              \* what it was rejected with
  sock,                \* tlsSocket and plainSocket
  heard,               \* the connector's listeners are attached to the socket
  dialTimer,           \* armed: dialTimeoutMs for the TCP connect
  handshakeTimer,      \* armed: TLS_HANDSHAKE_TIMEOUT_MS for the handshake
  plaintextAttempted, downgraded,
  aborted              \* options.signal.aborted

vars == <<mode, outcome, reason, sock, heard, dialTimer, handshakeTimer,
          plaintextAttempted, downgraded, aborted>>

Kind == {"tls", "plain"}

(* "failed" has emitted 'error', "destroyed" was destroyed here: 'close'   *)
(* is still to come for both.  "handed" belongs to the caller.             *)
SockState == {"none", "connecting", "up", "failed", "destroyed", "closed", "handed"}
Opened == {"connecting", "up"}

(* "raw" is the error of the socket or of tls.connect as Node words it,    *)
(* "policy" the text that replaces it under MUD_TLS_MODE=required.         *)
Reason == {"none", "aborted", "timeout", "closed", "callback", "raw", "policy"}

Settled == outcome \in {"resolved", "rejected"}

Init ==
  /\ mode \in Modes
  /\ outcome = "idle" /\ reason = "none"
  /\ sock = [k \in Kind |-> "none"]
  /\ heard = [k \in Kind |-> FALSE]
  /\ dialTimer = FALSE /\ handshakeTimer = FALSE
  /\ plaintextAttempted = FALSE /\ downgraded = FALSE
  /\ aborted = FALSE

-----------------------------------------------------------------------------
(* The connector's helpers, on the sockets S the event has left behind.    *)

Destroy(x) == IF x \in Opened \cup {"failed"} THEN "destroyed" ELSE x

(* provisionalSocket: the last socket that was created. *)
Provisional(S) == IF S["plain"] # "none" THEN "plain" ELSE "tls"

(* Mutant of Settle: the timers stay armed. *)
SettleKeepsTimers(S, result, why) ==
  /\ outcome' = result /\ reason' = why
  /\ sock' = S
  /\ heard' = [k \in Kind |-> FALSE]
  /\ UNCHANGED <<dialTimer, handshakeTimer>>

(* What handoff, fail and onAbort have in common. *)
Settle(S, result, why) ==
  /\ outcome' = result /\ reason' = why
  /\ sock' = S
  /\ heard' = [k \in Kind |-> FALSE]
  /\ dialTimer' = FALSE /\ handshakeTimer' = FALSE

(* fail, and onAbort *)
Fail(S, why) ==
  Settle([S EXCEPT ![Provisional(S)] = Destroy(@)], "rejected", why)

(* handoff; options.onConnected may throw. *)
Handoff(k) ==
  \/ Settle([sock EXCEPT ![k] = "handed"], "resolved", "none")
  \/ Settle([sock EXCEPT ![k] = "destroyed"], "rejected", "callback")

(* startPlain; net.createConnection may throw. *)
StartPlain(S) ==
  /\ plaintextAttempted' = TRUE
  /\ \/ /\ sock' = [S EXCEPT !["plain"] = "connecting"]
        /\ heard' = [k \in Kind |-> k = "plain"]
        /\ dialTimer' = TRUE /\ handshakeTimer' = FALSE
        /\ outcome' = "pending" /\ UNCHANGED reason
     \/ Fail(S, "raw")

(* Mutant of FallBackToPlain: the TLS socket is not destroyed. *)
FallBackToPlainKeepsTls(S) ==
  /\ ~plaintextAttempted
  /\ downgraded' = TRUE
  /\ StartPlain(S)

(* fallBackToPlain; options.onDowngrade may throw. *)
FallBackToPlain(S) ==
  LET D == [S EXCEPT !["tls"] = Destroy(@)] IN
  /\ ~plaintextAttempted
  /\ downgraded' = TRUE
  /\ \/ StartPlain(D)
     \/ plaintextAttempted' = TRUE /\ Fail(D, "callback")

(* What onTlsError rejects with when it does not fall back. *)
TlsErrorText == IF mode = "required" THEN "policy" ELSE "raw"

(* Mutant of TlsFailed: the mode is not looked at. *)
TlsFailedAnyMode(S, negotiation, why) ==
  \/ /\ negotiation
     /\ FallBackToPlain(S)
  \/ /\ ~negotiation
     /\ Fail(S, why)
     /\ UNCHANGED <<plaintextAttempted, downgraded>>

(* A TLS failure: fall back where prefer allows it, fail otherwise. *)
TlsFailed(S, negotiation, why) ==
  \/ /\ mode = "prefer" /\ negotiation
     /\ FallBackToPlain(S)
  \/ /\ ~(mode = "prefer" /\ negotiation)
     /\ Fail(S, why)
     /\ UNCHANGED <<plaintextAttempted, downgraded>>

-----------------------------------------------------------------------------
(* connectMudTransport's own body. *)
StartAborted ==
  /\ outcome = "idle" /\ aborted
  /\ Fail(sock, "aborted")
  /\ UNCHANGED <<mode, plaintextAttempted, downgraded, aborted>>

StartPlainDial ==
  /\ outcome = "idle" /\ ~aborted /\ mode = "plain"
  /\ StartPlain(sock)
  /\ UNCHANGED <<mode, downgraded, aborted>>

StartTlsDial ==
  /\ outcome = "idle" /\ ~aborted /\ mode # "plain"
  /\ outcome' = "pending"
  /\ sock' = [sock EXCEPT !["tls"] = "connecting"]
  /\ heard' = [heard EXCEPT !["tls"] = TRUE]
  /\ dialTimer' = TRUE
  /\ UNCHANGED <<mode, reason, handshakeTimer, plaintextAttempted, downgraded, aborted>>

(* tls.connect threw: onTlsError without a socket. *)
StartTlsThrows ==
  /\ outcome = "idle" /\ ~aborted /\ mode # "plain"
  /\ \E negotiation \in BOOLEAN : TlsFailed(sock, negotiation, TlsErrorText)
  /\ UNCHANGED <<mode, aborted>>

(* The caller aborts, before the call or during it. *)
Abort ==
  /\ ~aborted
  /\ aborted' = TRUE
  /\ \/ outcome = "pending" /\ Fail(sock, "aborted")
     \/ outcome # "pending"
        /\ UNCHANGED <<outcome, reason, sock, heard, dialTimer, handshakeTimer>>
  /\ UNCHANGED <<mode, plaintextAttempted, downgraded>>

-----------------------------------------------------------------------------
(* Socket events.                                                          *)

(* Mutants of TlsTcpConnect: the dial timer keeps running; no timer does. *)
TlsTcpConnectBothTimers ==
  /\ sock["tls"] = "connecting" /\ heard["tls"]
  /\ sock' = [sock EXCEPT !["tls"] = "up"]
  /\ handshakeTimer' = TRUE
  /\ UNCHANGED <<mode, outcome, reason, heard, dialTimer, plaintextAttempted,
                 downgraded, aborted>>

TlsTcpConnectNoTimer ==
  /\ sock["tls"] = "connecting" /\ heard["tls"]
  /\ sock' = [sock EXCEPT !["tls"] = "up"]
  /\ dialTimer' = FALSE
  /\ UNCHANGED <<mode, outcome, reason, heard, handshakeTimer,
                 plaintextAttempted, downgraded, aborted>>

TlsTcpConnect ==
  /\ sock["tls"] = "connecting" /\ heard["tls"]
  /\ sock' = [sock EXCEPT !["tls"] = "up"]
  /\ dialTimer' = FALSE /\ handshakeTimer' = TRUE
  /\ UNCHANGED <<mode, outcome, reason, heard, plaintextAttempted, downgraded, aborted>>

TlsSecureConnect ==
  /\ sock["tls"] = "up" /\ heard["tls"]
  /\ Handoff("tls")
  /\ UNCHANGED <<mode, plaintextAttempted, downgraded, aborted>>

(* isTlsNegotiationError tells the errors of the handshake from those of   *)
(* the network.                                                            *)
TlsError ==
  /\ sock["tls"] \in Opened /\ heard["tls"]
  /\ \E negotiation \in BOOLEAN :
       TlsFailed([sock EXCEPT !["tls"] = "failed"], negotiation, TlsErrorText)
  /\ UNCHANGED <<mode, aborted>>

TlsClose ==
  /\ sock["tls"] \notin {"none", "closed", "handed"} /\ heard["tls"]
  /\ TlsFailed([sock EXCEPT !["tls"] = "closed"], TRUE, "policy")
  /\ UNCHANGED <<mode, aborted>>

PlainConnect ==
  /\ sock["plain"] = "connecting" /\ heard["plain"]
  /\ Handoff("plain")
  /\ UNCHANGED <<mode, plaintextAttempted, downgraded, aborted>>

PlainError ==
  /\ sock["plain"] = "connecting" /\ heard["plain"]
  /\ Fail([sock EXCEPT !["plain"] = "failed"], "raw")
  /\ UNCHANGED <<mode, plaintextAttempted, downgraded, aborted>>

PlainClose ==
  /\ sock["plain"] \notin {"none", "closed", "handed"} /\ heard["plain"]
  /\ Fail([sock EXCEPT !["plain"] = "closed"], "closed")
  /\ UNCHANGED <<mode, plaintextAttempted, downgraded, aborted>>

(* The 'close' of a socket nobody listens to any more. *)
LateClose(k) ==
  /\ sock[k] \in {"failed", "destroyed"} /\ ~heard[k]
  /\ sock' = [sock EXCEPT ![k] = "closed"]
  /\ UNCHANGED <<mode, outcome, reason, heard, dialTimer, handshakeTimer,
                 plaintextAttempted, downgraded, aborted>>

DialDeadline ==
  /\ dialTimer
  /\ Fail(sock, "timeout")
  /\ UNCHANGED <<mode, plaintextAttempted, downgraded, aborted>>

HandshakeDeadline ==
  /\ handshakeTimer
  /\ TlsFailed(sock, TRUE, "policy")
  /\ UNCHANGED <<mode, aborted>>

-----------------------------------------------------------------------------
Next ==
  \/ StartAborted \/ StartPlainDial \/ StartTlsDial \/ StartTlsThrows \/ Abort
  \/ TlsTcpConnect \/ TlsSecureConnect \/ TlsError \/ TlsClose
  \/ PlainConnect \/ PlainError \/ PlainClose \/ \E k \in Kind : LateClose(k)
  \/ DialDeadline \/ HandshakeDeadline

Spec == Init /\ [][Next]_vars

(* Only the timers are fair: the peer may never answer anything. *)
FairSpec == Spec /\ WF_vars(DialDeadline) /\ WF_vars(HandshakeDeadline)

-----------------------------------------------------------------------------
(* Properties.                                                             *)

(* The state of a dial is well typed. *)
TypeOK ==
  /\ mode \in Modes
  /\ outcome \in {"idle", "pending", "resolved", "rejected"}
  /\ reason \in Reason
  /\ sock \in [Kind -> SockState]
  /\ heard \in [Kind -> BOOLEAN]
  /\ dialTimer \in BOOLEAN /\ handshakeTimer \in BOOLEAN
  /\ plaintextAttempted \in BOOLEAN /\ downgraded \in BOOLEAN
  /\ aborted \in BOOLEAN

(* While the promise is pending exactly one timer is armed, and exactly    *)
(* the socket it watches is listened to: no instant of a dial is left      *)
(* without a deadline and no late 'close' of an abandoned socket is heard. *)
(* Once it is settled nothing of the connector is left behind.             *)
OneDeadline ==
  /\ outcome = "pending" =>
       /\ dialTimer # handshakeTimer
       /\ handshakeTimer => sock["tls"] = "up"
       /\ \A k \in Kind : heard[k] <=> k = Provisional(sock)
       /\ sock[Provisional(sock)] \in Opened
  /\ outcome # "pending" =>
       /\ ~dialTimer /\ ~handshakeTimer
       /\ \A k \in Kind : ~heard[k]

(* Every socket the connector opened is closed or being closed, but the    *)
(* one it handed over, and it hands one over exactly when the promise      *)
(* resolves: neither a fallback nor a failure leaves a connection open.    *)
NoSocketLeaks ==
  /\ Settled => \A k \in Kind : sock[k] \notin Opened \cup {"failed"}
  /\ outcome = "rejected" <=> reason # "none"
  /\ outcome = "resolved" <=> \E k \in Kind : sock[k] = "handed"
  /\ ~(sock["tls"] = "handed" /\ sock["plain"] # "none")

(* MUD_TLS_MODE=required never opens a plain connection, and prefer opens  *)
(* one only after it has reported the downgrade and given up TLS.          *)
NoSilentDowngrade ==
  /\ mode = "required" => sock["plain"] = "none"
  /\ mode = "prefer" /\ sock["plain"] # "none"
       => downgraded /\ sock["tls"] \in {"none", "destroyed", "closed"}

(* Under required the player is told of a policy, a timeout or nothing,    *)
(* never a Node diagnostic, on every path a failure can take.              *)
NoDiagnosticShown == mode = "required" => reason # "raw"

(* The promise settles once, whatever timers, events and aborts come late. *)
SettlesOnce == [][Settled => outcome' = outcome]_vars

(* Every dial ends, with a peer that never answers too: the reservation    *)
(* SessionManager holds for it is given back.                              *)
DialEnds == outcome = "pending" ~> Settled

=============================================================================
