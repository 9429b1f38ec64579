------------------------- MODULE MudTransportProofs -------------------------
(***************************************************************************)
(* The safety properties of MudTransport, for every set of modes.          *)
(***************************************************************************)
EXTENDS MudTransport, TLAPS

(* What the properties need to be inductive: before the call nothing       *)
(* exists, a TLS socket is only heard before any plain one was tried, and  *)
(* nothing is handed over or left as failed while the promise is pending.  *)
Shape ==
  /\ outcome = "idle" =>
       /\ sock["tls"] = "none" /\ sock["plain"] = "none"
       /\ reason = "none" /\ ~plaintextAttempted /\ ~downgraded
  /\ mode = "plain" => sock["tls"] = "none"
  /\ sock["plain"] # "none" => plaintextAttempted
  /\ sock["plain"] # "up"
  /\ outcome = "pending" =>
       /\ reason = "none"
       /\ sock["tls"] \in Opened \cup {"none", "destroyed", "closed"}
       /\ sock["plain"] \in {"none", "connecting"}
       /\ sock["plain"] = "none" => ~plaintextAttempted

IInv ==
  TypeOK /\ OneDeadline /\ NoSocketLeaks /\ NoSilentDowngrade
    /\ NoDiagnosticShown /\ Shape

(* The invariant holds before the dial. *)
LEMMA InitInv == Init => IInv
  BY ModesAssumption DEF Init, IInv, TypeOK, OneDeadline, NoSocketLeaks,
     NoSilentDowngrade, NoDiagnosticShown, Shape, Kind, SockState, Reason,
     Settled, Provisional, Opened

(* Every event of a dial preserves the invariant. *)
LEMMA StepInv == IInv /\ [Next]_vars => IInv'
<1> SUFFICES ASSUME IInv, [Next]_vars PROVE IInv'
  OBVIOUS
<1> USE ModesAssumption DEF IInv, TypeOK, OneDeadline, NoSocketLeaks,
     NoSilentDowngrade, NoDiagnosticShown, Shape, Kind, SockState, Reason,
     Settled, Provisional, Opened, Settle, Fail, Destroy
<1>1. CASE StartAborted BY <1>1 DEF StartAborted
<1>2. CASE StartPlainDial BY <1>2 DEF StartPlainDial, StartPlain
<1>3. CASE StartTlsDial BY <1>3 DEF StartTlsDial
<1>4. CASE StartTlsThrows
  BY <1>4 DEF StartTlsThrows, TlsFailed, FallBackToPlain, StartPlain, TlsErrorText
<1>5. CASE Abort
  <2>1. CASE outcome = "pending" BY <1>5, <2>1 DEF Abort
  <2>2. CASE outcome # "pending"
    <3>1. /\ UNCHANGED <<mode, outcome, reason, sock, heard, dialTimer,
                         handshakeTimer, plaintextAttempted, downgraded>>
          /\ aborted' \in BOOLEAN
      BY <1>5, <2>2 DEF Abort
    <3> QED BY <3>1
  <2> QED BY <2>1, <2>2
<1>6. CASE TlsTcpConnect BY <1>6 DEF TlsTcpConnect
<1>7. CASE TlsSecureConnect BY <1>7 DEF TlsSecureConnect, Handoff
<1>8. CASE TlsError
  BY <1>8 DEF TlsError, TlsFailed, FallBackToPlain, StartPlain, TlsErrorText
<1>9. CASE TlsClose BY <1>9 DEF TlsClose, TlsFailed, FallBackToPlain, StartPlain
<1>10. CASE PlainConnect BY <1>10 DEF PlainConnect, Handoff
<1>11. CASE PlainError BY <1>11 DEF PlainError
<1>12. CASE PlainClose BY <1>12 DEF PlainClose
<1>13. ASSUME NEW k \in Kind, LateClose(k) PROVE IInv' BY <1>13 DEF LateClose
<1>14. CASE DialDeadline BY <1>14 DEF DialDeadline
<1>15. CASE HandshakeDeadline
  BY <1>15 DEF HandshakeDeadline, TlsFailed, FallBackToPlain, StartPlain
<1>16. CASE UNCHANGED vars BY <1>16 DEF vars
<1> QED
  BY <1>1, <1>2, <1>3, <1>4, <1>5, <1>6, <1>7, <1>8, <1>9, <1>10, <1>11, <1>12,
     <1>13, <1>14, <1>15, <1>16 DEF Next

(* A dial always has exactly one deadline and leaves no timer or listener. *)
THEOREM DeadlineTheorem == Spec => []OneDeadline
<1>1. IInv => OneDeadline BY DEF IInv
<1> QED BY <1>1, InitInv, StepInv, PTL DEF Spec

(* A dial hands over one socket when it resolves and leaves none open      *)
(* otherwise.                                                              *)
THEOREM LeakTheorem == Spec => []NoSocketLeaks
<1>1. IInv => NoSocketLeaks BY DEF IInv
<1> QED BY <1>1, InitInv, StepInv, PTL DEF Spec

(* required never opens plain text; prefer says so before it does.         *)
THEOREM DowngradeTheorem == Spec => []NoSilentDowngrade
<1>1. IInv => NoSilentDowngrade BY DEF IInv
<1> QED BY <1>1, InitInv, StepInv, PTL DEF Spec

(* Once the promise has settled, no later event changes its outcome.       *)
THEOREM SettleTheorem == Spec => SettlesOnce
<1>1. IInv /\ [Next]_vars => [Settled => outcome' = outcome]_vars
  <2> SUFFICES ASSUME IInv, [Next]_vars, Settled PROVE outcome' = outcome
    OBVIOUS
  <2> USE DEF IInv, TypeOK, OneDeadline, NoSocketLeaks, Settled, Kind
  <2>1. /\ ~dialTimer /\ ~handshakeTimer
        /\ ~heard["tls"] /\ ~heard["plain"]
        /\ outcome \notin {"idle", "pending"}
    OBVIOUS
  <2> QED
    BY <2>1 DEF Next, vars, StartAborted, StartPlainDial, StartTlsDial,
       StartTlsThrows, Abort, TlsTcpConnect, TlsSecureConnect, TlsError,
       TlsClose, PlainConnect, PlainError, PlainClose, LateClose, DialDeadline,
       HandshakeDeadline
<1> QED BY <1>1, InitInv, StepInv, PTL DEF Spec, SettlesOnce

=============================================================================
