------------------------- MODULE SessionProxyProofs -------------------------
(***************************************************************************)
(* Type correctness, the attachments and the connection limits of          *)
(* SessionProxy, for every number of sockets, connect frames, addresses    *)
(* and devices, every limit, and each target mode; then both protocols on  *)
(* the same counters, for every number of legacy connects: each count      *)
(* belongs to a connection, maxPerIP bounds the two protocols together,    *)
(* and a closed socket leaves no legacy dial behind.                       *)
(***************************************************************************)
EXTENDS LegacyProxy, FiniteSetTheorems, TLAPS

(* What a step removes: nothing, or one session. *)
Small(R) == R = {} \/ \E x \in Conn : R = {x}

(* A decrement with a floor stays natural. *)
LEMMA MonusType == ASSUME NEW n \in Nat PROVE Monus1(n) \in Nat
  BY DEF Monus1

(* The address of a connect frame is an address. *)
LEMMA IPOfType == ASSUME NEW c \in Conn PROVE IPOf(c) \in IP
  BY ConstantsAssumption DEF IPOf

(* An eviction removes at most one session, and one that is in the map. *)
LEMMA EvictionSmall ==
  ASSUME TypeOK, NEW d \in ConnectTokens, NEW R \in Evictions(d)
  PROVE  Small(R) /\ R \subseteq Sessions
<1>1. CASE R = {} BY <1>1 DEF Small
<1>2. CASE R # {}
  <2>1. d # None /\ d \in Device
    BY <1>2, ConstantsAssumption DEF Evictions
  <2>2. PICK x \in Oldest(d) : R = {x} \cap Sessions
    BY <1>2 DEF Evictions
  <2>3. x \in Conn
    BY <2>1, <2>2 DEF Oldest, TypeOK
  <2> QED BY <1>2, <2>2, <2>3 DEF Small
<1> QED BY <1>1, <1>2

-----------------------------------------------------------------------------
(* Type correctness.                                                       *)

(* Giving capacity back keeps the counters natural. *)
LEMMA ReleaseType ==
  ASSUME TypeOK, NEW R
  PROVE  /\ EstWithout(R) \in [IP -> Nat] /\ PendWithout(R) \in [IP -> Nat]
         /\ GlobalEstWithout(R) \in Nat /\ GlobalPendWithout(R) \in Nat
  BY MonusType DEF TypeOK, EstWithout, PendWithout, GlobalEstWithout,
     GlobalPendWithout

(* Clearing the fields of removed sessions keeps their types. *)
LEMMA ClearedType ==
  ASSUME TypeOK, NEW R
  PROVE  /\ Cleared(phase, R, "gone") \in [Conn -> Phase]
         /\ Cleared(dev, R, None) \in [Conn -> Device \cup {None}]
         /\ Cleared(clients, R, {}) \in [Conn -> SUBSET Socket]
         /\ Cleared(since, R, "null") \in [Conn -> {"null", "fresh", "expired"}]
         /\ Cleared(idle, R, FALSE) \in [Conn -> BOOLEAN]
         /\ TelWithout(R) \in [Conn -> {"none", "open", "dying", "closed"}]
         /\ DevSessWithout(R) \in [Device -> SUBSET Conn]
         /\ SockSessWithout(R) \in [Socket -> Conn \cup {None}]
<1> USE DEF TypeOK, Cleared, Phase
<1>1. Cleared(phase, R, "gone") \in [Conn -> Phase] OBVIOUS
<1>2. Cleared(dev, R, None) \in [Conn -> Device \cup {None}] OBVIOUS
<1>3. Cleared(clients, R, {}) \in [Conn -> SUBSET Socket] OBVIOUS
<1>4. Cleared(since, R, "null") \in [Conn -> {"null", "fresh", "expired"}] OBVIOUS
<1>5. Cleared(idle, R, FALSE) \in [Conn -> BOOLEAN] OBVIOUS
<1>6. TelWithout(R) \in [Conn -> {"none", "open", "dying", "closed"}]
  BY DEF TelWithout
<1>7. DevSessWithout(R) \in [Device -> SUBSET Conn] BY DEF DevSessWithout
<1>8. SockSessWithout(R) \in [Socket -> Conn \cup {None}] BY DEF SockSessWithout
<1> QED BY <1>1, <1>2, <1>3, <1>4, <1>5, <1>6, <1>7, <1>8

(* Detaching a socket keeps clients and stamps well typed. *)
LEMMA DetachedType ==
  ASSUME TypeOK, NEW s \in Socket
  PROVE  /\ DetachedClients(s) \in [Conn -> SUBSET Socket]
         /\ DetachedSince(s) \in [Conn -> {"null", "fresh", "expired"}]
  BY DEF TypeOK, DetachedClients, DetachedSince

(* Everything but the capacity counters. *)
SessionTypeOK ==
  /\ open \in [Socket -> BOOLEAN]
  /\ phase \in [Conn -> Phase]
  /\ tel \in [Conn -> {"none", "open", "dying", "closed"}]
  /\ born \in [Conn -> Nat]
  /\ dev \in [Conn -> Device \cup {None}]
  /\ clients \in [Conn -> SUBSET Socket]
  /\ since \in [Conn -> {"null", "fresh", "expired"}]
  /\ idle \in [Conn -> BOOLEAN]
  /\ sockSess \in [Socket -> Conn \cup {None}]
  /\ devSess \in [Device -> SUBSET Conn]
  /\ term \subseteq Conn /\ rmTimer \subseteq Conn /\ tracked \subseteq Conn

CapacityTypeOK ==
  /\ est \in [IP -> Nat] /\ pend \in [IP -> Nat]
  /\ globalEst \in Nat /\ globalPend \in Nat

(* The type invariant splits into the sessions and the counters. *)
LEMMA TypeParts == TypeOK <=> SessionTypeOK /\ CapacityTypeOK
  BY DEF TypeOK, SessionTypeOK, CapacityTypeOK

(* The initial state is well typed. *)
LEMMA InitType == Init => TypeOK
  BY ConstantsAssumption DEF Init, TypeOK, Phase

(* Dropping sessions keeps the types. *)
LEMMA DropType ==
  ASSUME TypeOK, NEW R, Drop(R)
  PROVE  /\ phase' \in [Conn -> Phase] /\ born' \in [Conn -> Nat]
         /\ dev' \in [Conn -> Device \cup {None}]
         /\ clients' \in [Conn -> SUBSET Socket]
         /\ since' \in [Conn -> {"null", "fresh", "expired"}]
         /\ idle' \in [Conn -> BOOLEAN]
         /\ devSess' \in [Device -> SUBSET Conn]
         /\ CapacityTypeOK'
<1>1. born' \in [Conn -> Nat] BY DEF Drop, TypeOK
<1>2. CapacityTypeOK' BY ReleaseType DEF Drop, ReleaseCapacity, CapacityTypeOK
<1> QED BY <1>1, <1>2, ClearedType DEF Drop

(* removeSession keeps the types. *)
LEMMA RemoveType ==
  ASSUME TypeOK, NEW R, RemoveSession(R), UNCHANGED open,
         term' \subseteq Conn, rmTimer' \subseteq Conn, tracked' \subseteq Conn
  PROVE  TypeOK'
<1>1. /\ tel' \in [Conn -> {"none", "open", "dying", "closed"}]
      /\ sockSess' \in [Socket -> Conn \cup {None}]
  BY ClearedType DEF RemoveSession
<1>2. open' \in [Socket -> BOOLEAN] BY DEF TypeOK
<1> QED BY <1>1, <1>2, DropType DEF RemoveSession, TypeOK, CapacityTypeOK

(* create and attachWebSocket keep the types. *)
LEMMA AttachType ==
  ASSUME TypeOK, NEW c \in Conn, NEW d \in Device \cup {None}, NEW R,
         AttachNew(c, d, R), UNCHANGED <<open, endVars>>,
         tracked' \subseteq Conn
  PROVE  SessionTypeOK'
<1> DEFINE s == SocketOf[c]
<1>0. s \in Socket BY ConstantsAssumption
<1>1. phase' \in [Conn -> Phase] BY ClearedType DEF AttachNew, Phase
<1>2. tel' \in [Conn -> {"none", "open", "dying", "closed"}]
  BY ClearedType DEF AttachNew
<1>3. born' \in [Conn -> Nat]
  <2>1. IsFiniteSet({x \in Conn : born[x] > 0})
    BY FS_Subset, ConstantsAssumption
  <2>2. Cardinality({x \in Conn : born[x] > 0}) \in Nat
    BY <2>1, FS_CardinalityType
  <2> QED BY <2>2 DEF AttachNew, TypeOK
<1>4. dev' \in [Conn -> Device \cup {None}] BY ClearedType DEF AttachNew
<1>5. Cleared(DetachedClients(s), R, {}) \in [Conn -> SUBSET Socket]
  BY <1>0, DetachedType DEF Cleared
<1>6. clients' \in [Conn -> SUBSET Socket] BY <1>0, <1>5 DEF AttachNew
<1>7. Cleared(DetachedSince(s), R, "null") \in [Conn -> {"null", "fresh", "expired"}]
  BY <1>0, DetachedType DEF Cleared
<1>8. since' \in [Conn -> {"null", "fresh", "expired"}] BY <1>7 DEF AttachNew
<1>9. idle' \in [Conn -> BOOLEAN] BY ClearedType DEF AttachNew
<1>10. sockSess' \in [Socket -> Conn \cup {None}]
  BY <1>0, ClearedType DEF AttachNew
<1>11. devSess' \in [Device -> SUBSET Conn]
  <2> DEFINE D == DevSessWithout(R)
  <2>1. D \in [Device -> SUBSET Conn] BY ClearedType
  <2>2. devSess' = [x \in Device |-> IF x = d THEN D[x] \cup {c} ELSE D[x]]
    BY DEF AttachNew
  <2> HIDE DEF D
  <2> QED BY <2>1, <2>2
<1>12. /\ open' \in [Socket -> BOOLEAN]
       /\ term' \subseteq Conn /\ rmTimer' \subseteq Conn
  BY DEF TypeOK, endVars
<1> QED
  BY <1>1, <1>2, <1>3, <1>4, <1>6, <1>8, <1>9, <1>10, <1>11, <1>12
  DEF SessionTypeOK

(* reservePendingDial keeps the counters natural. *)
LEMMA ReserveType ==
  ASSUME TypeOK, NEW c \in Conn, NEW R, Reserve(c, R)
  PROVE  CapacityTypeOK'
  BY IPOfType, ReleaseType DEF Reserve, CapacityTypeOK

(* Every step keeps the types. *)
LEMMA TypeStep == TypeOK /\ [Next]_vars => TypeOK'
<1> SUFFICES ASSUME TypeOK, [Next]_vars PROVE TypeOK'
  OBVIOUS
<1>a. /\ open \in [Socket -> BOOLEAN]
      /\ term \subseteq Conn /\ rmTimer \subseteq Conn /\ tracked \subseteq Conn
  BY DEF TypeOK
<1>1. ASSUME NEW c \in Conn, NEW d \in ConnectTokens, ConnectRefused(c, d)
      PROVE  TypeOK'
  <2>1. PICK R \in Evictions(d) : RemoveSession(R) BY <1>1 DEF ConnectRefused
  <2>2. UNCHANGED <<open, term, rmTimer, tracked>>
    BY <1>1 DEF ConnectRefused, endVars
  <2> QED BY <1>a, <2>1, <2>2, RemoveType
<1>2. ASSUME NEW c \in Conn, NEW d \in ConnectTokens, ConnectDial(c, d)
      PROVE  TypeOK'
  <2>0. d \in Device \cup {None} BY ConstantsAssumption
  <2>1. PICK R \in Evictions(d) : Reserve(c, R) /\ AttachNew(c, d, R)
    BY <1>2 DEF ConnectDial
  <2>2. CapacityTypeOK' BY <2>1, ReserveType
  <2>3. UNCHANGED <<open, endVars>> /\ tracked' \subseteq Conn
    BY <1>a, <1>2 DEF ConnectDial
  <2>4. SessionTypeOK' BY <2>0, <2>1, <2>3, AttachType
  <2> QED BY <2>2, <2>4, TypeParts DEF TypeOK, SessionTypeOK, CapacityTypeOK
<1>3. ASSUME NEW c \in Conn, NEW d \in ConnectTokens, ConnectResolve(c, d)
      PROVE  TypeOK'
  <2>0. d \in Device \cup {None} BY ConstantsAssumption
  <2>1. PICK R \in Evictions(d) :
          /\ Reserve(c, R)
          /\ phase' = [Cleared(phase, R, "gone") EXCEPT ![c] = "dns"]
          /\ dev' = [Cleared(dev, R, None) EXCEPT ![c] = d]
          /\ tel' = TelWithout(R)
          /\ clients' = Cleared(clients, R, {})
          /\ since' = Cleared(since, R, "null")
          /\ idle' = Cleared(idle, R, FALSE)
          /\ devSess' = DevSessWithout(R)
          /\ sockSess' = SockSessWithout(R)
    BY <1>3 DEF ConnectResolve
  <2>2. CapacityTypeOK' BY <2>1, ReserveType
  <2>3. phase' \in [Conn -> Phase] BY <2>1, ClearedType DEF Phase
  <2>4. dev' \in [Conn -> Device \cup {None}] BY <2>0, <2>1, ClearedType
  <2>5. /\ open' \in [Socket -> BOOLEAN] /\ born' \in [Conn -> Nat]
        /\ term' \subseteq Conn /\ rmTimer' \subseteq Conn
        /\ tracked' \subseteq Conn
    BY <1>3 DEF ConnectResolve, TypeOK, endVars
  <2> QED
    BY <2>1, <2>2, <2>3, <2>4, <2>5, ClearedType DEF TypeOK, CapacityTypeOK
<1>4. ASSUME NEW c \in Conn, ResolveAllowed(c) PROVE TypeOK'
  <2>1. dev[c] \in Device \cup {None} BY DEF TypeOK
  <2>2. /\ AttachNew(c, dev[c], {}) /\ UNCHANGED <<open, endVars>>
        /\ tracked' \subseteq Conn
    BY <1>4, <1>a DEF ResolveAllowed
  <2>3. CapacityTypeOK' BY <1>4 DEF ResolveAllowed, capVars, TypeOK, CapacityTypeOK
  <2>4. SessionTypeOK' BY <2>1, <2>2, AttachType
  <2> QED BY <2>3, <2>4 DEF TypeOK, SessionTypeOK, CapacityTypeOK
<1>5. ASSUME NEW c \in Conn, ResolveDenied(c) PROVE TypeOK'
  BY <1>a, <1>5, RemoveType DEF ResolveDenied, endVars
<1>6. ASSUME NEW c \in Conn, DialSucceeds(c) PROVE TypeOK'
  <2>1. est' \in [IP -> Nat] /\ globalEst' \in Nat
    BY <1>6 DEF DialSucceeds, EstWith, GlobalEstWith, TypeOK
  <2>2. pend' \in [IP -> Nat] /\ globalPend' \in Nat
    BY <1>6, ReleaseType DEF DialSucceeds
  <2>3. /\ phase' \in [Conn -> Phase]
        /\ tel' \in [Conn -> {"none", "open", "dying", "closed"}]
    BY <1>6 DEF DialSucceeds, TypeOK, Phase
  <2> QED BY <1>6, <2>1, <2>2, <2>3 DEF DialSucceeds, TypeOK, mapVars, endVars
<1>7. ASSUME NEW c \in Conn, DialFails(c) PROVE TypeOK'
  BY <1>a, <1>7, RemoveType DEF DialFails, endVars
<1>8. ASSUME NEW c \in Conn, TelnetClosed(c) PROVE TypeOK'
  <2>0. /\ tel' = [tel EXCEPT ![c] = "closed"]
        /\ UNCHANGED open
    BY <1>8 DEF TelnetClosed
  <2>1. tel' \in [Conn -> {"none", "open", "dying", "closed"}]
    BY <2>0 DEF TypeOK
  <2>2. CASE clients[c] # {}
    BY <1>8, <2>0, <2>1, <2>2 DEF TelnetClosed, TypeOK, mapVars, capVars
  <2>3. CASE clients[c] = {}
    <3>1. Drop({c} \cap Sessions) BY <1>8, <2>3 DEF TelnetClosed
    <3>2. /\ UNCHANGED <<open, sockSess, term, rmTimer>> /\ tracked' \subseteq Conn
      BY <1>8, <1>a, <2>3 DEF TelnetClosed, endVars
    <3> QED BY <2>1, <3>1, <3>2, DropType DEF TypeOK, CapacityTypeOK
  <2> QED BY <2>2, <2>3
<1>9. ASSUME NEW c \in Conn, TelnetError(c) PROVE TypeOK'
  <2>1. CASE clients[c] # {}
    BY <1>9, <2>1 DEF TelnetError, TypeOK, mapVars, capVars
  <2>2. CASE clients[c] = {}
    BY <1>9, <1>a, <2>2, RemoveType DEF TelnetError
  <2> QED BY <2>1, <2>2
<1>10. ASSUME NEW c \in Conn, TerminationTimer(c) PROVE TypeOK'
  BY <1>10, <1>a, RemoveType DEF TerminationTimer
<1>11. ASSUME NEW c \in Conn, RemovalTimer(c) PROVE TypeOK'
  BY <1>11, <1>a, RemoveType DEF RemovalTimer
<1>12. ASSUME NEW s \in Socket, NEW c \in Conn, NEW d \in ResumeTokens,
              Resume(s, c, d)
       PROVE  TypeOK'
  <2>0. UNCHANGED <<open, term, rmTimer>> /\ tracked' \subseteq Conn
    BY <1>12, <1>a DEF Resume, endVars
  <2>1. CASE idle[c]
    BY <1>12, <1>a, <2>0, <2>1, RemoveType DEF Resume
  <2>2. CASE ~idle[c]
    <3>1. /\ clients' = [DetachedClients(s) EXCEPT ![c] = @ \cup {s}]
          /\ since' = [DetachedSince(s) EXCEPT ![c] = "null"]
          /\ sockSess' = [sockSess EXCEPT ![s] = c]
          /\ dev' = IF d = None THEN dev ELSE [dev EXCEPT ![c] = d]
          /\ UNCHANGED <<phase, tel, born, idle, devSess, capVars>>
      BY <1>12, <2>2 DEF Resume
    <3>2. clients' \in [Conn -> SUBSET Socket] BY <3>1, DetachedType
    <3>3. since' \in [Conn -> {"null", "fresh", "expired"}]
      BY <3>1, DetachedType
    <3>4. sockSess' \in [Socket -> Conn \cup {None}] BY <3>1 DEF TypeOK
    <3>5. dev' \in [Conn -> Device \cup {None}]
      BY <3>1, ConstantsAssumption DEF TypeOK
    <3> QED BY <2>0, <3>1, <3>2, <3>3, <3>4, <3>5 DEF TypeOK, capVars
  <2> QED BY <2>1, <2>2
<1>13. ASSUME NEW s \in Socket, Disconnect(s) PROVE TypeOK'
  <2> DEFINE c == sockSess[s]
  <2>1. /\ Drop({c}) /\ tel' = TelWithout({c}) /\ tracked' = tracked \ {c}
        /\ UNCHANGED <<open, sockSess, term, rmTimer>>
    BY <1>13 DEF Disconnect, endVars
  <2> QED BY <2>1, DropType, ClearedType DEF TypeOK, CapacityTypeOK
<1>14. ASSUME NEW s \in Socket, SocketClosed(s) PROVE TypeOK'
  <2>1. /\ open' \in [Socket -> BOOLEAN]
        /\ sockSess' \in [Socket -> Conn \cup {None}]
        /\ tracked' \subseteq Conn
    BY <1>14 DEF SocketClosed, DetachSocket, TypeOK
  <2> QED
    BY <1>14, <2>1, DetachedType
    DEF SocketClosed, DetachSocket, TypeOK, capVars, endVars
<1>15. ASSUME NEW c \in Conn, GraceElapses(c) PROVE TypeOK'
  BY <1>15 DEF GraceElapses, TypeOK, mapVars, capVars, endVars
<1>16. ASSUME NEW c \in Conn, TimeoutElapses(c) PROVE TypeOK'
  BY <1>16 DEF TimeoutElapses, TypeOK, mapVars, capVars, endVars
<1>17. ASSUME NEW c \in Conn, ReapClientless(c) PROVE TypeOK'
  BY <1>17, <1>a, RemoveType DEF ReapClientless, endVars
<1>18. ASSUME NEW c \in Conn, CleanupInactive(c) PROVE TypeOK'
  BY <1>18, <1>a, RemoveType DEF CleanupInactive, endVars
<1>19. CASE UNCHANGED vars
  BY <1>19 DEF vars, sessVars, mapVars, capVars, endVars, TypeOK
<1> QED
  BY <1>1, <1>2, <1>3, <1>4, <1>5, <1>6, <1>7, <1>8, <1>9, <1>10, <1>11, <1>12,
     <1>13, <1>14, <1>15, <1>16, <1>17, <1>18, <1>19
  DEF Next, Client, Upstream, Timers

(* A step of the specification is one of Next: the target mode is kept.    *)
LEMMA StepIsNext == [Step]_<<vars, arbitrary, left>> => [Next]_vars
  BY DEF Step

(* Every variable of the session core keeps its type: in particular the    *)
(* capacity counters never go negative.                                    *)
THEOREM TypeTheorem == Spec => []TypeOK
  BY InitType, TypeStep, StepIsNext, PTL DEF Spec

-----------------------------------------------------------------------------
(* Who is attached to what: the socket index, the client sets, the stamp   *)
(* of a session without clients and the background push register agree.    *)
(*                                                                         *)
(* The socket index may keep entries of removed sessions (a 'disconnect'   *)
(* frame leaves them), so IndexesAgree alone is not inductive: a session   *)
(* that is created must find no old entry pointing at it.                  *)

(* What a phase says of a Session: it is in the map; it does not exist yet. *)
Mapped(p) == p \in {"dialing", "live"}
Unborn(p) == p \in {"none", "dns"}

(* A frame whose Session does not exist yet is in no index entry. *)
UnbornUnattached ==
  \A s \in Socket, c \in Conn : Unborn(phase[c]) => sockSess[s] # c

AttachInv ==
  /\ TypeOK /\ IndexesAgree /\ ClientlessIsStamped /\ PushOnlyWhenAway
  /\ UnbornUnattached

-----------------------------------------------------------------------------
(* The three ways a step changes attachments.                              *)

(* Sessions R end; the index may keep or lose their entries, no other. *)
EndStep(R) ==
  /\ \A x \in Conn :
       /\ Mapped(phase'[x]) <=> Mapped(phase[x]) /\ x \notin R
       /\ Unborn(phase'[x]) => Unborn(phase[x])
       /\ clients'[x] = IF x \in R THEN {} ELSE clients[x]
       /\ x \notin R => (since'[x] = "null" <=> since[x] = "null")
  /\ \A s \in Socket :
       \/ sockSess'[s] = sockSess[s]
       \/ sockSess'[s] = None /\ \A x \in Conn : sockSess[s] = x => x \in R
  /\ tracked' \subseteq tracked

(* Socket s leaves the session it is attached to; c, when it is one, gets it. *)
MoveStep(s, c, R) ==
  /\ c \in Conn \cup {None} /\ c \notin R
  /\ c \in Conn => Mapped(phase[c]) \/ Unborn(phase[c])
  /\ \A x \in Conn :
       /\ Mapped(phase'[x]) <=> x = c \/ (Mapped(phase[x]) /\ x \notin R)
       /\ Unborn(phase'[x]) => Unborn(phase[x])
       /\ clients'[x] = IF x \in R THEN {}
                        ELSE IF x = c THEN (IF Mapped(phase[x]) THEN clients[x] ELSE {}) \cup {s}
                        ELSE clients[x] \ {s}
       /\ x \notin R =>
            since'[x] = IF x = c THEN "null"
                        ELSE IF x = sockSess[s] /\ Mapped(phase[x])
                             THEN IF clients[x] \subseteq {s} THEN "fresh" ELSE "null"
                             ELSE since[x]
  /\ sockSess'[s] = c
  /\ \A t \in Socket \ {s} :
       \/ sockSess'[t] = sockSess[t]
       \/ sockSess'[t] = None /\ \A x \in Conn : sockSess[t] = x => x \in R
  /\ \A x \in tracked' : clients'[x] = {}

(* Sessions that end take their attachments with them. *)
LEMMA EndKeeps ==
  ASSUME AttachInv, NEW R, TypeOK', EndStep(R)
  PROVE  AttachInv'
<1>1. IndexesAgree'
  BY ConstantsAssumption DEF AttachInv, IndexesAgree, EndStep, TypeOK, InMap, Mapped
<1>2. ClientlessIsStamped'
  BY DEF AttachInv, ClientlessIsStamped, EndStep, InMap, Mapped
<1>3. PushOnlyWhenAway'
  BY DEF AttachInv, PushOnlyWhenAway, EndStep, TypeOK
<1>4. UnbornUnattached'
  <2> SUFFICES ASSUME NEW s \in Socket, NEW c \in Conn, Unborn(phase'[c])
               PROVE  sockSess'[s] # c
    BY DEF UnbornUnattached
  <2>1. sockSess[s] # c BY DEF EndStep, AttachInv, UnbornUnattached
  <2>2. sockSess'[s] \in {sockSess[s], None} BY DEF EndStep
  <2> QED BY <2>1, <2>2, ConstantsAssumption
<1> QED BY <1>1, <1>2, <1>3, <1>4 DEF AttachInv

(* A socket that moves is known where it arrives and forgotten where it left. *)
LEMMA MoveKeeps ==
  ASSUME AttachInv, NEW s \in Socket, NEW c, NEW R, TypeOK', MoveStep(s, c, R)
  PROVE  AttachInv'
<1>0. /\ \A t \in Socket, x \in Conn :
           /\ t \in clients[x] => sockSess[t] = x /\ Mapped(phase[x])
           /\ sockSess[t] = x /\ Mapped(phase[x]) => t \in clients[x]
           /\ Unborn(phase[x]) => sockSess[t] # x
      /\ \A x \in Conn : Mapped(phase[x]) => (clients[x] = {} <=> since[x] # "null")
      /\ clients \in [Conn -> SUBSET Socket] /\ sockSess \in [Socket -> Conn \cup {None}]
  BY DEF AttachInv, IndexesAgree, UnbornUnattached, ClientlessIsStamped, InMap, Mapped,
     TypeOK
<1>a. ASSUME NEW x \in Conn, x \in R
      PROVE  x # c /\ clients'[x] = {} /\ ~Mapped(phase'[x])
  BY <1>a DEF MoveStep
<1>b. ASSUME NEW x \in Conn, x \notin R, x = c
      PROVE  /\ Mapped(phase'[x]) /\ ~Unborn(phase'[x]) /\ since'[x] = "null"
             /\ clients'[x] = clients[x] \cup {s}
             /\ Mapped(phase[x]) \/ Unborn(phase[x])
  <2>1. Mapped(phase[x]) \/ clients[x] = {} BY <1>0
  <2>2. clients'[x] = (IF Mapped(phase[x]) THEN clients[x] ELSE {}) \cup {s}
    BY <1>b DEF MoveStep
  <2>3. clients'[x] = clients[x] \cup {s} BY <2>1, <2>2
  <2> QED BY <1>b, <2>3 DEF MoveStep, Mapped, Unborn
<1>c. ASSUME NEW x \in Conn, x \notin R, x # c
      PROVE  /\ Mapped(phase'[x]) <=> Mapped(phase[x])
             /\ Unborn(phase'[x]) => Unborn(phase[x])
             /\ clients'[x] = clients[x] \ {s}
             /\ since'[x] = IF x = sockSess[s] /\ Mapped(phase[x])
                            THEN IF clients[x] \subseteq {s} THEN "fresh" ELSE "null"
                            ELSE since[x]
  BY <1>c DEF MoveStep
<1>d. /\ sockSess'[s] = c
      /\ \A t \in Socket, x \in Conn :
           /\ t # s /\ sockSess'[t] = x => sockSess[t] = x
           /\ t # s /\ sockSess[t] = x /\ x \notin R => sockSess'[t] = x
  BY ConstantsAssumption DEF MoveStep
<1> HIDE DEF MoveStep
<1>1. IndexesAgree'
  <2> SUFFICES ASSUME NEW t \in Socket, NEW x \in Conn
               PROVE  /\ t \in clients'[x] => sockSess'[t] = x /\ Mapped(phase'[x])
                      /\ sockSess'[t] = x /\ Mapped(phase'[x]) => t \in clients'[x]
    BY DEF IndexesAgree, InMap, Mapped
  <2>1. CASE x \in R BY <1>a, <2>1
  <2>2. CASE x \notin R /\ x = c
    <3>1. CASE t = s BY <1>b, <1>d, <2>2, <3>1
    <3>2. CASE t # s BY <1>0, <1>b, <1>d, <2>2, <3>2
    <3> QED BY <3>1, <3>2
  <2>3. CASE x \notin R /\ x # c
    <3>1. CASE t = s BY <1>c, <1>d, <2>3, <3>1
    <3>2. CASE t # s BY <1>0, <1>c, <1>d, <2>3, <3>2
    <3> QED BY <3>1, <3>2
  <2> QED BY <2>1, <2>2, <2>3
<1>2. ClientlessIsStamped'
  <2> SUFFICES ASSUME NEW x \in Conn, Mapped(phase'[x])
               PROVE  clients'[x] = {} <=> since'[x] # "null"
    BY DEF ClientlessIsStamped, InMap, Mapped
  <2>1. x \notin R BY <1>a
  <2>2. CASE x = c BY <1>b, <2>1, <2>2
  <2>3. CASE x # c
    <3>1. /\ clients'[x] = clients[x] \ {s} /\ Mapped(phase[x])
      BY <1>c, <2>1, <2>3
    <3>2. CASE x = sockSess[s] BY <1>c, <2>1, <2>3, <3>1, <3>2
    <3>3. CASE x # sockSess[s]
      <4>1. s \notin clients[x] /\ clients'[x] = clients[x] BY <1>0, <3>1, <3>3
      <4>2. since'[x] = since[x] BY <1>c, <2>1, <2>3, <3>3
      <4> QED BY <1>0, <3>1, <4>1, <4>2
    <3> QED BY <3>2, <3>3
  <2> QED BY <2>2, <2>3
<1>3. PushOnlyWhenAway'
  BY DEF PushOnlyWhenAway, MoveStep
<1>4. UnbornUnattached'
  <2> SUFFICES ASSUME NEW t \in Socket, NEW x \in Conn, Unborn(phase'[x])
               PROVE  sockSess'[t] # x
    BY DEF UnbornUnattached, Unborn
  <2>1. x # c /\ Unborn(phase[x]) BY <1>b DEF MoveStep, Mapped, Unborn
  <2> QED BY <1>0, <1>d, <2>1
<1> QED BY <1>1, <1>2, <1>3, <1>4 DEF AttachInv

-----------------------------------------------------------------------------
(* Which step is which.                                                    *)

(* removeSession, with or without its clean-up of the socket index, ends R. *)
LEMMA RemoveIsEnd ==
  ASSUME AttachInv, NEW R \in SUBSET Conn,
         \/ phase' = Cleared(phase, R, "gone")
         \/ \E c \in Conn : /\ phase[c] = "none" /\ R \subseteq Sessions
                            /\ phase' = [Cleared(phase, R, "gone") EXCEPT ![c] = "dns"],
         clients' = Cleared(clients, R, {}), since' = Cleared(since, R, "null"),
         sockSess' = sockSess \/ sockSess' = SockSessWithout(R),
         tracked' \subseteq tracked
  PROVE  EndStep(R)
<1>1. ASSUME NEW x \in Conn
      PROVE  /\ Mapped(phase'[x]) <=> Mapped(phase[x]) /\ x \notin R
             /\ Unborn(phase'[x]) => Unborn(phase[x])
  <2>1. CASE phase' = Cleared(phase, R, "gone")
    BY <2>1 DEF Cleared, Mapped, Unborn
  <2>2. ASSUME NEW c \in Conn, phase[c] = "none", R \subseteq Sessions,
               phase' = [Cleared(phase, R, "gone") EXCEPT ![c] = "dns"]
        PROVE  /\ Mapped(phase'[x]) <=> Mapped(phase[x]) /\ x \notin R
               /\ Unborn(phase'[x]) => Unborn(phase[x])
    BY <2>2 DEF Cleared, Mapped, Unborn
  <2> QED BY <2>1, <2>2
<1>2. \A x \in Conn : /\ clients'[x] = IF x \in R THEN {} ELSE clients[x]
                      /\ x \notin R => (since'[x] = "null" <=> since[x] = "null")
  BY DEF Cleared
<1>3. ASSUME NEW s \in Socket
      PROVE  \/ sockSess'[s] = sockSess[s]
             \/ sockSess'[s] = None /\ \A x \in Conn : sockSess[s] = x => x \in R
  BY <1>3 DEF SockSessWithout, AttachInv, IndexesAgree
<1> QED BY <1>1, <1>2, <1>3 DEF EndStep

(* create and attachWebSocket move the frame's socket to the new session. *)
LEMMA AttachIsMove ==
  ASSUME AttachInv, NEW c \in Conn, NEW d, NEW R \in SUBSET Sessions,
         Unborn(phase[c]), AttachNew(c, d, R), tracked' = tracked \ {c}
  PROVE  MoveStep(SocketOf[c], c, R)
<1> DEFINE s == SocketOf[c]
<1>0. /\ s \in Socket /\ c \notin R /\ R \subseteq Conn
  BY ConstantsAssumption DEF Sessions, InMap, Unborn
<1>1. \A x \in Conn, t \in Socket : t \in clients[x] => sockSess[t] = x /\ Mapped(phase[x])
  BY DEF AttachInv, IndexesAgree, InMap, Mapped
<1>2. ASSUME NEW x \in Conn
      PROVE  /\ Mapped(phase'[x]) <=> x = c \/ (Mapped(phase[x]) /\ x \notin R)
             /\ Unborn(phase'[x]) => Unborn(phase[x])
  BY <1>0 DEF AttachNew, Cleared, Mapped, Unborn
<1>3. ASSUME NEW x \in Conn
      PROVE  clients'[x] = IF x \in R THEN {}
                           ELSE IF x = c THEN {s} ELSE clients[x] \ {s}
  <2>1. clients'[x] = IF x = c THEN {s}
                      ELSE IF x \in R THEN {}
                      ELSE IF x = sockSess[s] THEN clients[x] \ {s} ELSE clients[x]
    BY DEF AttachNew, Cleared, DetachedClients
  <2>2. x # sockSess[s] => clients[x] = clients[x] \ {s} BY <1>0, <1>1
  <2> QED BY <1>0, <2>1, <2>2
<1>4. ASSUME NEW x \in Conn
      PROVE  x \notin R =>
            since'[x] = IF x = c THEN "null"
                        ELSE IF x = sockSess[s] /\ Mapped(phase[x])
                             THEN IF clients[x] \subseteq {s} THEN "fresh" ELSE "null"
                             ELSE since[x]
  BY DEF AttachNew, Cleared, DetachedSince, InMap, Mapped
<1>5. sockSess'[s] = c BY <1>0 DEF AttachNew, SockSessWithout
<1>6. ASSUME NEW t \in Socket \ {s}
      PROVE  \/ sockSess'[t] = sockSess[t]
             \/ sockSess'[t] = None /\ \A x \in Conn : sockSess[t] = x => x \in R
  <2>1. sockSess'[t] = IF \E x \in R : t \in clients[x] THEN None ELSE sockSess[t]
    BY DEF AttachNew, SockSessWithout
  <2> QED BY <1>0, <1>1, <2>1
<1>7. ASSUME NEW x \in tracked' PROVE clients'[x] = {}
  <2>1. x \in Conn /\ x # c /\ clients[x] = {} BY DEF AttachInv, PushOnlyWhenAway, TypeOK
  <2> QED BY <1>3, <2>1
<1>8. ~Mapped(phase[c]) BY DEF Mapped, Unborn
<1> QED BY <1>0, <1>2, <1>3, <1>4, <1>5, <1>6, <1>7, <1>8 DEF MoveStep

(* Every step ends sessions or moves one socket. *)
AttachmentStep ==
  \/ \E R \in SUBSET Conn : EndStep(R)
  \/ \E s \in Socket, c \in Conn \cup {None}, R \in SUBSET Conn : MoveStep(s, c, R)

(* A step that leaves sessions and attachments alone ends nothing. *)
LEMMA QuietIsEnd ==
  ASSUME UNCHANGED <<clients, since, sockSess, tracked>>,
         \A x \in Conn : /\ Mapped(phase'[x]) <=> Mapped(phase[x])
                         /\ Unborn(phase'[x]) => Unborn(phase[x])
  PROVE  AttachmentStep
<1>1. EndStep({}) BY DEF EndStep
<1> QED BY <1>1 DEF AttachmentStep

(* The classification, action by action. *)
LEMMA AttachmentStepKinds ==
  ASSUME AttachInv, [Next]_vars PROVE AttachmentStep
<1>0. TypeOK BY DEF AttachInv
<1>a. ASSUME NEW R \in SUBSET Conn, RemoveSession(R), tracked' \subseteq tracked
      PROVE  AttachmentStep
  <2>1. EndStep(R) BY <1>a, RemoveIsEnd DEF RemoveSession, Drop
  <2> QED BY <2>1 DEF AttachmentStep
<1>b. ASSUME NEW d \in ConnectTokens, NEW R \in Evictions(d)
      PROVE  R \in SUBSET Sessions /\ R \in SUBSET Conn
  BY <1>0, EvictionSmall DEF Sessions
<1>1. ASSUME NEW c \in Conn, NEW d \in ConnectTokens, ConnectRefused(c, d)
      PROVE  AttachmentStep
  BY <1>1, <1>a, <1>b DEF ConnectRefused
<1>2. ASSUME NEW c \in Conn, NEW d \in ConnectTokens, ConnectDial(c, d)
      PROVE  AttachmentStep
  <2>1. PICK R \in Evictions(d) : AttachNew(c, d, R) BY <1>2 DEF ConnectDial
  <2>2. Unborn(phase[c]) /\ tracked' = tracked \ {c}
    BY <1>2 DEF ConnectDial, MayConnect, Unborn
  <2>3. MoveStep(SocketOf[c], c, R) BY <1>b, <2>1, <2>2, AttachIsMove
  <2> QED BY <1>b, <2>3, ConstantsAssumption DEF AttachmentStep
<1>3. ASSUME NEW c \in Conn, NEW d \in ConnectTokens, ConnectResolve(c, d)
      PROVE  AttachmentStep
  <2>1. PICK R \in Evictions(d) :
          /\ phase' = [Cleared(phase, R, "gone") EXCEPT ![c] = "dns"]
          /\ clients' = Cleared(clients, R, {})
          /\ since' = Cleared(since, R, "null")
          /\ sockSess' = SockSessWithout(R)
    BY <1>3 DEF ConnectResolve
  <2>2. phase[c] = "none" /\ tracked' = tracked
    BY <1>3 DEF ConnectResolve, MayConnect
  <2>3. EndStep(R) BY <1>b, <2>1, <2>2, RemoveIsEnd
  <2> QED BY <1>b, <2>3 DEF AttachmentStep
<1>4. ASSUME NEW c \in Conn, ResolveAllowed(c) PROVE AttachmentStep
  <2>1. MoveStep(SocketOf[c], c, {})
    BY <1>4, AttachIsMove DEF ResolveAllowed, Unborn
  <2> QED BY <2>1, ConstantsAssumption DEF AttachmentStep
<1>5. ASSUME NEW c \in Conn, ResolveDenied(c) PROVE AttachmentStep
  BY <1>5, <1>a DEF ResolveDenied
<1>6. ASSUME NEW c \in Conn, DialSucceeds(c) PROVE AttachmentStep
  <2>1. \A x \in Conn : /\ Mapped(phase'[x]) <=> Mapped(phase[x])
                        /\ Unborn(phase'[x]) => Unborn(phase[x])
    BY <1>0, <1>6 DEF DialSucceeds, TypeOK, Mapped, Unborn
  <2> QED BY <1>6, <2>1, QuietIsEnd DEF DialSucceeds, mapVars
<1>7. ASSUME NEW c \in Conn, DialFails(c) PROVE AttachmentStep
  BY <1>7, <1>a DEF DialFails
<1>8. ASSUME NEW c \in Conn, TelnetClosed(c) PROVE AttachmentStep
  <2>1. CASE clients[c] # {}
    BY <1>8, <2>1, QuietIsEnd DEF TelnetClosed, mapVars
  <2>2. CASE clients[c] = {}
    <3>1. Drop({c} \cap Sessions) /\ sockSess' = sockSess /\ tracked' \subseteq tracked
      BY <1>8, <2>2 DEF TelnetClosed
    <3>2. EndStep({c} \cap Sessions) BY <3>1, RemoveIsEnd DEF Drop
    <3> QED BY <3>2 DEF AttachmentStep
  <2> QED BY <2>1, <2>2
<1>9. ASSUME NEW c \in Conn, TelnetError(c) PROVE AttachmentStep
  <2>1. CASE clients[c] # {}
    BY <1>9, <2>1, QuietIsEnd DEF TelnetError, mapVars
  <2>2. CASE clients[c] = {} BY <1>9, <1>a, <2>2 DEF TelnetError
  <2> QED BY <2>1, <2>2
<1>10. ASSUME NEW c \in Conn, TerminationTimer(c) PROVE AttachmentStep
  BY <1>10, <1>a DEF TerminationTimer
<1>11. ASSUME NEW c \in Conn, RemovalTimer(c) PROVE AttachmentStep
  BY <1>11, <1>a DEF RemovalTimer
<1>12. ASSUME NEW s \in Socket, NEW c \in Conn, NEW d \in ResumeTokens,
              Resume(s, c, d)
       PROVE  AttachmentStep
  <2>1. CASE idle[c] BY <1>12, <1>a, <2>1 DEF Resume
  <2>2. CASE ~idle[c]
    <3>1. /\ clients' = [DetachedClients(s) EXCEPT ![c] = @ \cup {s}]
          /\ since' = [DetachedSince(s) EXCEPT ![c] = "null"]
          /\ sockSess' = [sockSess EXCEPT ![s] = c]
          /\ phase' = phase /\ tracked' = tracked \ {c} /\ Mapped(phase[c])
      BY <1>12, <2>2 DEF Resume, InMap, Mapped
    <3>2. \A x \in Conn : s \in clients[x] => sockSess[s] = x
      BY DEF AttachInv, IndexesAgree
    <3>3. ASSUME NEW x \in Conn
          PROVE  clients'[x] = IF x = c THEN clients[x] \cup {s} ELSE clients[x] \ {s}
      <4>1. clients'[x] = IF x = c THEN DetachedClients(s)[x] \cup {s}
                                   ELSE DetachedClients(s)[x]
        BY <3>1 DEF DetachedClients
      <4>2. DetachedClients(s)[x] = clients[x] \ {s}
        BY <3>2 DEF DetachedClients
      <4> QED BY <4>1, <4>2
    <3>4. \A x \in Conn :
            since'[x] = IF x = c THEN "null"
                        ELSE IF x = sockSess[s] /\ Mapped(phase[x])
                             THEN IF clients[x] \subseteq {s} THEN "fresh" ELSE "null"
                             ELSE since[x]
      BY <3>1 DEF DetachedSince, InMap, Mapped
    <3>5. ASSUME NEW x \in tracked' PROVE clients'[x] = {}
      <4>1. x \in Conn /\ x # c /\ clients[x] = {}
        BY <3>1 DEF AttachInv, PushOnlyWhenAway, TypeOK
      <4> QED BY <3>3, <4>1
    <3>6. sockSess'[s] = c /\ \A t \in Socket \ {s} : sockSess'[t] = sockSess[t]
      BY <1>0, <3>1 DEF TypeOK
    <3>7. MoveStep(s, c, {}) BY <3>1, <3>3, <3>4, <3>5, <3>6 DEF MoveStep
    <3> QED BY <3>7 DEF AttachmentStep
  <2> QED BY <2>1, <2>2
<1>13. ASSUME NEW s \in Socket, Disconnect(s) PROVE AttachmentStep
  <2> DEFINE c == sockSess[s]
  <2>1. Drop({c}) /\ tracked' \subseteq tracked /\ sockSess' = sockSess /\ c \in Conn
    BY <1>0, <1>13 DEF Disconnect, TypeOK
  <2>2. EndStep({c}) BY <2>1, RemoveIsEnd DEF Drop
  <2> QED BY <2>1, <2>2 DEF AttachmentStep
<1>14. ASSUME NEW s \in Socket, SocketClosed(s) PROVE AttachmentStep
  <2>1. /\ clients' = DetachedClients(s) /\ since' = DetachedSince(s)
        /\ sockSess' = [sockSess EXCEPT ![s] = None] /\ phase' = phase
        /\ tracked' = tracked \cup {x \in Conn : /\ x = sockSess[s]
                                                /\ DetachedClients(s)[x] = {}
                                                /\ TelnetConnected(x)}
    BY <1>14 DEF SocketClosed, DetachSocket
  <2>2. None \notin Conn BY ConstantsAssumption
  <2>3. \A x \in Conn : s \in clients[x] => sockSess[s] = x
    BY DEF AttachInv, IndexesAgree
  <2>4. \A x \in Conn : clients'[x] = clients[x] \ {s}
    BY <2>1, <2>3 DEF DetachedClients
  <2>5. \A x \in Conn :
          since'[x] = IF x = sockSess[s] /\ Mapped(phase[x])
                      THEN IF clients[x] \subseteq {s} THEN "fresh" ELSE "null"
                      ELSE since[x]
    BY <2>1 DEF DetachedSince, InMap, Mapped
  <2>6. ASSUME NEW x \in tracked' PROVE clients'[x] = {}
    <3>1. CASE x \in tracked
      <4>1. x \in Conn /\ clients[x] = {}
        BY <3>1 DEF AttachInv, PushOnlyWhenAway, TypeOK
      <4> QED BY <2>4, <4>1
    <3>2. CASE x \notin tracked BY <2>1, <3>2
    <3> QED BY <3>1, <3>2
  <2>7. sockSess'[s] = None /\ \A t \in Socket \ {s} : sockSess'[t] = sockSess[t]
    BY <1>0, <2>1 DEF TypeOK
  <2>8. MoveStep(s, None, {}) BY <2>1, <2>2, <2>4, <2>5, <2>6, <2>7 DEF MoveStep
  <2> QED BY <2>8 DEF AttachmentStep
<1>15. ASSUME NEW c \in Conn, GraceElapses(c) PROVE AttachmentStep
  <2>1. \A x \in Conn : since'[x] = "null" <=> since[x] = "null"
    BY <1>0, <1>15 DEF GraceElapses, TypeOK
  <2>2. EndStep({}) BY <1>15, <2>1 DEF GraceElapses, EndStep, mapVars
  <2> QED BY <2>2 DEF AttachmentStep
<1>16. ASSUME NEW c \in Conn, TimeoutElapses(c) PROVE AttachmentStep
  BY <1>16, QuietIsEnd DEF TimeoutElapses, mapVars
<1>17. ASSUME NEW c \in Conn, ReapClientless(c) PROVE AttachmentStep
  BY <1>17, <1>a DEF ReapClientless
<1>18. ASSUME NEW c \in Conn, CleanupInactive(c) PROVE AttachmentStep
  BY <1>18, <1>a DEF CleanupInactive
<1>19. CASE UNCHANGED vars
  BY <1>19, QuietIsEnd DEF vars, sessVars, mapVars
<1> QED
  BY <1>1, <1>2, <1>3, <1>4, <1>5, <1>6, <1>7, <1>8, <1>9, <1>10, <1>11, <1>12,
     <1>13, <1>14, <1>15, <1>16, <1>17, <1>18, <1>19
  DEF Next, Client, Upstream, Timers

(* Nothing is attached at the start. *)
LEMMA AttachInit == Init => AttachInv
<1> SUFFICES ASSUME Init PROVE AttachInv OBVIOUS
<1>1. TypeOK BY InitType
<1>2. IndexesAgree BY ConstantsAssumption DEF Init, IndexesAgree, InMap
<1>3. ClientlessIsStamped BY DEF Init, ClientlessIsStamped, InMap
<1>4. PushOnlyWhenAway BY DEF Init, PushOnlyWhenAway
<1>5. UnbornUnattached BY ConstantsAssumption DEF Init, UnbornUnattached
<1> QED BY <1>1, <1>2, <1>3, <1>4, <1>5 DEF AttachInv

(* Every step keeps the attachments in order. *)
LEMMA AttachNext == AttachInv /\ [Next]_vars => AttachInv'
<1> SUFFICES ASSUME AttachInv, [Next]_vars PROVE AttachInv'
  OBVIOUS
<1>1. TypeOK' BY TypeStep DEF AttachInv
<1>2. AttachmentStep BY AttachmentStepKinds
<1> QED BY <1>1, <1>2, EndKeeps, MoveKeeps DEF AttachmentStep

(* The attachments are in order in every reachable state. *)
LEMMA AttachAlways == Spec => []AttachInv
  BY AttachInit, AttachNext, StepIsNext, PTL DEF Spec

(* The grace window of reapClientlessSessions runs for the sessions nobody *)
(* is attached to and for no other, in each mode and with any tokens.      *)
THEOREM StampTheorem == Spec => []ClientlessIsStamped
  BY AttachAlways, PTL DEF AttachInv

(* Background push covers no session a client is attached to. *)
THEOREM PushTheorem == Spec => []PushOnlyWhenAway
  BY AttachAlways, PTL DEF AttachInv

-----------------------------------------------------------------------------
(* The device index.  It is filled under the token of the connect frame    *)
(* and cleaned under the token the session has when it is removed, so the  *)
(* sessions no resume frame gave another token (left) are in it exactly.   *)

NoLookups == \A c \in Conn : phase[c] # "dns"

(* A frame whose Session does not exist yet is in no entry, and has had no *)
(* other token.                                                            *)
LeftOwn ==
  /\ left \in [Conn -> SUBSET (Device \cup {None})]
  /\ \A c \in Conn : Unborn(phase[c]) =>
       left[c] = {} /\ \A d \in Device : c \notin devSess[d]

DeviceInv == AttachInv /\ (~arbitrary => NoLookups) /\ LeftOwn /\ DeviceIndexExact

(* The index of one device holds connections: it is finite. *)
LEMMA DeviceFinite ==
  ASSUME TypeOK, NEW d \in Device
  PROVE  IsFiniteSet(devSess[d]) /\ Cardinality(devSess[d]) \in Nat
<1>1. devSess[d] \subseteq Conn BY DEF TypeOK
<1>2. IsFiniteSet(devSess[d]) BY <1>1, FS_Subset, ConstantsAssumption
<1> QED BY <1>2, FS_CardinalityType

(* Sessions that stay with the token they have have not left it. *)
LEMMA LeftSame ==
  ASSUME LeftOwn, RecordLeft,
         \A x \in Conn : Mapped(phase[x]) /\ Mapped(phase'[x]) => dev'[x] = dev[x]
  PROVE  left' = left
<1>1. \A x \in Conn : ~(InMap(x) /\ InMap(x)' /\ dev'[x] # dev[x])
  BY DEF InMap, Mapped
<1>2. left' = [x \in Conn |-> left[x]] BY <1>1 DEF RecordLeft
<1> QED BY <1>2 DEF LeftOwn

(* Ending sessions takes them out of the index they are in. *)
LEMMA DeviceEnd ==
  ASSUME DeviceInv, TypeOK', arbitrary' = arbitrary, RecordLeft,
         NEW R \in SUBSET Sessions, devSess' = DevSessWithout(R),
         \A x \in Conn : /\ Mapped(phase'[x]) <=> Mapped(phase[x]) /\ x \notin R
                         /\ Mapped(phase'[x]) => dev'[x] = dev[x]
                         /\ Unborn(phase'[x]) => Unborn(phase[x])
  PROVE  LeftOwn' /\ DeviceIndexExact'
<1>0. TypeOK /\ LeftOwn BY DEF DeviceInv, AttachInv
<1>1. left' = left BY <1>0, LeftSame
<1>2. ASSUME NEW d \in Device
      PROVE  devSess'[d] = {x \in devSess[d] : ~(x \in R /\ dev[x] = d)}
  BY DEF DevSessWithout
<1>3. LeftOwn' BY <1>0, <1>1, <1>2 DEF LeftOwn
<1>4. ASSUME NEW d \in Device
      PROVE  {c \in devSess'[d] : d \notin left[c]}
               = {c \in Sessions' : dev'[c] = d /\ left[c] = {}}
  <2>1. {c \in devSess[d] : d \notin left[c]}
          = {c \in Sessions : dev[c] = d /\ left[c] = {}}
    BY DEF DeviceInv, DeviceIndexExact
  <2>2. \A x \in Conn : x \in Sessions' <=> x \in Sessions /\ x \notin R
    BY DEF Sessions, InMap, Mapped
  <2>3. \A x \in Conn : x \in Sessions' => dev'[x] = dev[x]
    BY DEF Sessions, InMap, Mapped
  <2>4. Sessions \subseteq Conn /\ Sessions' \subseteq Conn BY DEF Sessions
  <2>5. devSess'[d] = {x \in devSess[d] : ~(x \in R /\ dev[x] = d)} BY <1>2
  <2>6. \A x \in Conn : x \in devSess[d] /\ d \notin left[x]
                        <=> x \in Sessions /\ dev[x] = d /\ left[x] = {}
    BY <2>1
  <2>7. devSess[d] \subseteq Conn BY <1>0 DEF TypeOK
  <2> QED BY <2>2, <2>3, <2>4, <2>5, <2>6, <2>7
<1>5. ASSUME NEW d \in Device, ~arbitrary, \A c \in Conn : d \notin left[c]
      PROVE  Cardinality(devSess'[d]) <= MaxPerDevice
  <2>1. Cardinality(devSess[d]) <= MaxPerDevice
    BY <1>5 DEF DeviceInv, DeviceIndexExact
  <2>2. IsFiniteSet(devSess[d]) /\ Cardinality(devSess[d]) \in Nat
    BY <1>0, DeviceFinite
  <2>3. devSess'[d] \subseteq devSess[d] BY <1>2
  <2>4. /\ Cardinality(devSess'[d]) <= Cardinality(devSess[d])
        /\ Cardinality(devSess'[d]) \in Nat
    BY <2>2, <2>3, FS_Subset, FS_CardinalityType
  <2> QED BY <2>1, <2>2, <2>4, ConstantsAssumption
<1> QED BY <1>1, <1>3, <1>4, <1>5 DEF DeviceIndexExact

(* A connect evicts the oldest session of a full device before it adds its *)
(* own; after a lookup it adds it without looking again.                   *)
LEMMA DeviceConnect ==
  ASSUME DeviceInv, TypeOK', arbitrary' = arbitrary, RecordLeft, NEW c \in Conn,
         NEW d \in Device \cup {None}, NEW R \in SUBSET Sessions,
         R \in Evictions(d) \/ arbitrary,
         Unborn(phase[c]), AttachNew(c, d, R)
  PROVE  LeftOwn' /\ DeviceIndexExact'
<1>0. TypeOK /\ LeftOwn BY DEF DeviceInv, AttachInv
<1>1. R \subseteq Sessions /\ Sessions \subseteq Conn /\ c \notin Sessions
  BY DEF Sessions, InMap, Unborn
<1>2. \A x \in Conn : phase'[x] = IF x = c THEN "dialing"
                                  ELSE IF x \in R THEN "gone" ELSE phase[x]
  BY <1>0 DEF AttachNew, Cleared, TypeOK
<1>3. \A x \in Conn : dev'[x] = IF x = c THEN d
                                ELSE IF x \in R THEN None ELSE dev[x]
  BY <1>0 DEF AttachNew, Cleared, TypeOK
<1>4. left' = left
  <2>1. \A x \in Conn : Mapped(phase[x]) /\ Mapped(phase'[x]) => dev'[x] = dev[x]
    BY <1>2, <1>3 DEF Mapped, Unborn
  <2> QED BY <1>0, <2>1, LeftSame
<1>5. Sessions' = (Sessions \ R) \cup {c}
  BY <1>1, <1>2 DEF Sessions, InMap
<1>6. ASSUME NEW e \in Device
      PROVE  /\ devSess'[e] = IF e = d THEN DevSessWithout(R)[e] \cup {c}
                                       ELSE DevSessWithout(R)[e]
             /\ DevSessWithout(R)[e] = {x \in devSess[e] : ~(x \in R /\ dev[x] = e)}
             /\ \A x \in Conn \ {c} : x \in devSess'[e]
                                      <=> x \in devSess[e] /\ ~(x \in R /\ dev[x] = e)
  <2>1. /\ devSess'[e] = IF e = d THEN DevSessWithout(R)[e] \cup {c}
                                  ELSE DevSessWithout(R)[e]
        /\ DevSessWithout(R)[e] = {x \in devSess[e] : ~(x \in R /\ dev[x] = e)}
    BY DEF AttachNew, DevSessWithout
  <2>2. CASE e = d
    <3>1. devSess'[e] = DevSessWithout(R)[e] \cup {c} BY <2>1, <2>2
    <3> QED BY <2>1, <3>1
  <2>3. CASE e # d
    <3>1. devSess'[e] = DevSessWithout(R)[e] BY <2>1, <2>3
    <3> QED BY <2>1, <3>1
  <2> QED BY <2>2, <2>3
<1>7. left[c] = {} /\ \A e \in Device : c \notin devSess[e] BY <1>0 DEF LeftOwn
<1>8. LeftOwn'
  <2>1. ASSUME NEW x \in Conn, Unborn(phase'[x])
        PROVE  left[x] = {} /\ \A e \in Device : x \notin devSess'[e]
    <3>1. x # c /\ Unborn(phase[x]) BY <1>2, <2>1 DEF Unborn
    <3>2. left[x] = {} /\ \A e \in Device : x \notin devSess[e]
      BY <1>0, <3>1 DEF LeftOwn
    <3> QED BY <1>6, <3>1, <3>2
  <2> QED BY <1>0, <1>4, <2>1 DEF LeftOwn
<1>9. ASSUME NEW e \in Device
      PROVE  {x \in devSess'[e] : e \notin left[x]}
               = {x \in Sessions' : dev'[x] = e /\ left[x] = {}}
  <2>1. \A x \in Conn : x \in devSess[e] /\ e \notin left[x]
                        <=> x \in Sessions /\ dev[x] = e /\ left[x] = {}
    BY DEF DeviceInv, DeviceIndexExact
  <2>2. devSess[e] \subseteq Conn /\ e # None BY <1>0, ConstantsAssumption DEF TypeOK
  <2>3. devSess'[e] \subseteq Conn BY DEF TypeOK
  <2>4. Sessions' \subseteq Conn BY <1>1, <1>5
  <2>5. ASSUME NEW x \in Conn
        PROVE  x \in devSess'[e] /\ e \notin left[x]
               <=> x \in Sessions' /\ dev'[x] = e /\ left[x] = {}
    <3>1. CASE x = c
      <4>1. c \notin DevSessWithout(R)[e]
        <5>1. c \notin devSess[e] BY <1>7
        <5>2. DevSessWithout(R)[e] = {y \in devSess[e] : ~(y \in R /\ dev[y] = e)} BY <1>6
        <5> QED BY <5>1, <5>2
      <4>a. devSess'[e] = IF e = d THEN DevSessWithout(R)[e] \cup {c}
                                   ELSE DevSessWithout(R)[e]
        BY <1>6
      <4>2. c \in devSess'[e] <=> e = d
        <5>1. CASE e = d BY <4>a, <5>1
        <5>2. CASE e # d BY <4>1, <4>a, <5>2
        <5> QED BY <5>1, <5>2
      <4>3. c \in Sessions' /\ dev'[c] = d /\ left[c] = {} BY <1>3, <1>5, <1>7
      <4> QED BY <3>1, <4>2, <4>3
    <3>2. CASE x # c
      <4>1. x \in devSess'[e] <=> x \in devSess[e] /\ ~(x \in R /\ dev[x] = e)
        BY <1>6, <3>2, Zenon
      <4>2. x \in Sessions' <=> x \in Sessions /\ x \notin R BY <1>5, <3>2
      <4>3. x \notin R => dev'[x] = dev[x] BY <1>3, <3>2
      <4> QED BY <2>1, <4>1, <4>2, <4>3
    <3> QED BY <3>1, <3>2
  <2> QED BY <2>3, <2>4, <2>5
<1>10. ASSUME NEW e \in Device, ~arbitrary, \A x \in Conn : e \notin left[x]
       PROVE  Cardinality(devSess'[e]) <= MaxPerDevice
  <2> DEFINE D == DevSessWithout(R)[e]
  <2>0. e # None /\ R \in Evictions(d) BY <1>10, ConstantsAssumption
  <2>1. \A x \in Conn : x \in devSess[e] => x \in Sessions /\ dev[x] = e
    BY <1>10 DEF DeviceInv, DeviceIndexExact
  <2>2. devSess'[e] = IF e = d THEN D \cup {c} ELSE D BY <1>6
  <2>3. devSess[e] \subseteq Conn /\ c \notin devSess[e] BY <1>0, <1>7 DEF TypeOK
  <2>4. D = devSess[e] \ R BY <1>6, <2>1, <2>3
  <2>5. /\ IsFiniteSet(devSess[e]) /\ Cardinality(devSess[e]) \in Nat
        /\ Cardinality(devSess[e]) <= MaxPerDevice
    BY <1>0, <1>10, DeviceFinite DEF DeviceInv, DeviceIndexExact
  <2> HIDE DEF D
  <2>6. /\ IsFiniteSet(D) /\ Cardinality(D) \in Nat
        /\ Cardinality(D) <= Cardinality(devSess[e])
    BY <2>4, <2>5, FS_Subset, FS_CardinalityType
  <2>7. CASE e # d
    <3>1. devSess'[e] = D BY <2>2, <2>7
    <3>2. Cardinality(D) <= MaxPerDevice BY <2>5, <2>6, ConstantsAssumption
    <3> QED BY <3>1, <3>2
  <2>8. CASE e = d
    <3>1. c \notin D BY <2>3, <2>4
    <3>2. Cardinality(D \cup {c}) = Cardinality(D) + 1
      BY <2>6, <3>1, FS_AddElement
    <3>3. CASE Cardinality(devSess[d]) >= MaxPerDevice
      <4>1. PICK x \in Oldest(d) : R = {x} \cap Sessions
        BY <2>0, <2>8, <3>3 DEF Evictions
      <4>2. x \in devSess[d] /\ R = {x}
        BY <2>1, <2>3, <2>8, <4>1 DEF Oldest
      <4>3. Cardinality(devSess[e] \ {x}) = Cardinality(devSess[e]) - 1
        BY <2>5, <2>8, <4>2, FS_RemoveElement
      <4>4. Cardinality(D) = Cardinality(devSess[e]) - 1 BY <2>4, <4>2, <4>3
      <4>5. Cardinality(devSess'[e]) = Cardinality(devSess[e])
        BY <2>2, <2>5, <2>8, <3>2, <4>4
      <4> QED BY <2>5, <4>5
    <3>4. CASE ~(Cardinality(devSess[d]) >= MaxPerDevice)
      <4>1. Cardinality(devSess[e]) < MaxPerDevice
        BY <2>5, <2>8, <3>4, ConstantsAssumption
      <4>2. Cardinality(devSess'[e]) = Cardinality(D) + 1 BY <2>2, <2>8, <3>2
      <4> QED BY <2>5, <2>6, <4>1, <4>2, ConstantsAssumption
    <3> QED BY <3>3, <3>4
  <2> QED BY <2>7, <2>8
<1> QED BY <1>4, <1>8, <1>9, <1>10 DEF DeviceIndexExact

(* A resume frame with another token: the session leaves the one it had. *)
LEMMA DeviceMoves ==
  ASSUME DeviceInv, TypeOK', arbitrary' = arbitrary, RecordLeft, NEW c \in Sessions,
         NEW d \in Device, d # dev[c], dev' = [dev EXCEPT ![c] = d],
         UNCHANGED <<phase, devSess>>
  PROVE  LeftOwn' /\ DeviceIndexExact'
<1>0. TypeOK /\ LeftOwn /\ c \in Conn /\ InMap(c) BY DEF DeviceInv, AttachInv, Sessions
<1>1. \A x \in Conn : dev'[x] = IF x = c THEN d ELSE dev[x] BY <1>0 DEF TypeOK
<1>2. InMap(c)' BY <1>0 DEF InMap
<1>3. left' = [x \in Conn |-> IF x = c THEN left[x] \cup {dev[x]} ELSE left[x]]
  <2>1. \A x \in Conn : (InMap(x) /\ InMap(x)' /\ dev'[x] # dev[x]) <=> x = c
    BY <1>0, <1>1, <1>2
  <2> QED BY <2>1 DEF RecordLeft
<1>4. LeftOwn'
  <2>1. left' \in [Conn -> SUBSET (Device \cup {None})]
    BY <1>0, <1>3 DEF LeftOwn, TypeOK
  <2>2. ~Unborn(phase[c]) BY <1>0 DEF InMap, Unborn
  <2>3. \A x \in Conn : Unborn(phase[x]) => left'[x] = left[x] BY <1>3, <2>2
  <2> QED BY <1>0, <2>1, <2>3 DEF LeftOwn
<1>5. Sessions' = Sessions BY DEF Sessions, InMap
<1>6. ASSUME NEW e \in Device
      PROVE  {x \in devSess[e] : e \notin left'[x]}
               = {x \in Sessions : dev'[x] = e /\ left'[x] = {}}
  <2>1. \A x \in Conn : x \in devSess[e] /\ e \notin left[x]
                        <=> x \in Sessions /\ dev[x] = e /\ left[x] = {}
    BY DEF DeviceInv, DeviceIndexExact
  <2>2. devSess[e] \subseteq Conn /\ Sessions \subseteq Conn
    BY <1>0 DEF TypeOK, Sessions
  <2>3. ASSUME NEW x \in Conn
        PROVE  x \in devSess[e] /\ e \notin left'[x]
               <=> x \in Sessions /\ dev'[x] = e /\ left'[x] = {}
    <3>1. CASE x = c
      <4>1. left'[x] = left[x] \cup {dev[x]} BY <1>3, <3>1
      <4>2. left'[x] # {} BY <4>1
      <4>3. ~(x \in devSess[e] /\ e \notin left'[x]) BY <2>1, <4>1
      <4> QED BY <4>2, <4>3
    <3>2. CASE x # c
      <4>1. left'[x] = left[x] /\ dev'[x] = dev[x] BY <1>1, <1>3, <3>2
      <4> QED BY <2>1, <4>1
    <3> QED BY <3>1, <3>2
  <2> QED BY <2>2, <2>3
<1>7. ASSUME NEW e \in Device, ~arbitrary, \A x \in Conn : e \notin left'[x]
      PROVE  Cardinality(devSess[e]) <= MaxPerDevice
  <2>1. \A x \in Conn : left[x] \subseteq left'[x] BY <1>3
  <2>2. \A x \in Conn : e \notin left[x] BY <1>7, <2>1
  <2> QED BY <1>7, <2>2 DEF DeviceInv, DeviceIndexExact
<1> QED BY <1>4, <1>5, <1>6, <1>7 DEF DeviceIndexExact

(* Every step keeps the device index exact. *)
LEMMA DeviceStep ==
  ASSUME DeviceInv, [Next]_vars, arbitrary' = arbitrary, RecordLeft
  PROVE  LeftOwn' /\ DeviceIndexExact'
<1>0. TypeOK /\ LeftOwn BY DEF DeviceInv, AttachInv
<1>1. TypeOK' BY <1>0, TypeStep
<1>9. devSess = DevSessWithout({})
  BY <1>0 DEF DevSessWithout, TypeOK
<1>a. ASSUME NEW R \in SUBSET Sessions, Drop(R) PROVE LeftOwn' /\ DeviceIndexExact'
  <2>1. \A x \in Conn : phase'[x] = IF x \in R THEN "gone" ELSE phase[x]
    BY <1>a DEF Drop, Cleared
  <2>2. \A x \in Conn : dev'[x] = IF x \in R THEN None ELSE dev[x]
    BY <1>a DEF Drop, Cleared
  <2>3. \A x \in Conn : /\ Mapped(phase'[x]) <=> Mapped(phase[x]) /\ x \notin R
                        /\ Mapped(phase'[x]) => dev'[x] = dev[x]
                        /\ Unborn(phase'[x]) => Unborn(phase[x])
    BY <2>1, <2>2 DEF Mapped, Unborn
  <2> QED BY <1>1, <1>a, <2>3, DeviceEnd DEF Drop
<1>b. ASSUME UNCHANGED <<dev, devSess>>,
             \A x \in Conn : /\ Mapped(phase'[x]) <=> Mapped(phase[x])
                             /\ Unborn(phase'[x]) => Unborn(phase[x])
      PROVE  LeftOwn' /\ DeviceIndexExact'
  <2>1. {} \in SUBSET Sessions /\ devSess' = DevSessWithout({}) BY <1>9, <1>b
  <2> QED BY <1>1, <1>b, <2>1, DeviceEnd
<1>c. ASSUME UNCHANGED <<phase, dev, devSess>> PROVE LeftOwn' /\ DeviceIndexExact'
  BY <1>b, <1>c
<1>2. ASSUME NEW c \in Conn, NEW d \in ConnectTokens,
             ConnectRefused(c, d) \/ ConnectDial(c, d) \/ ConnectResolve(c, d)
      PROVE  LeftOwn' /\ DeviceIndexExact'
  <2>1. CASE ConnectRefused(c, d)
    <3>1. PICK R \in Evictions(d) : RemoveSession(R) BY <2>1 DEF ConnectRefused
    <3>2. R \in SUBSET Sessions BY <1>0, EvictionSmall
    <3> QED BY <1>a, <3>1, <3>2 DEF RemoveSession
  <2>2. CASE ConnectDial(c, d)
    <3>1. PICK R \in Evictions(d) : AttachNew(c, d, R) BY <2>2 DEF ConnectDial
    <3>2. Unborn(phase[c]) BY <2>2 DEF ConnectDial, MayConnect, Unborn
    <3>3. d \in Device \cup {None} BY ConstantsAssumption
    <3>4. R \in SUBSET Sessions BY <1>0, EvictionSmall
    <3> QED BY <1>1, <3>1, <3>2, <3>3, <3>4, DeviceConnect
  <2>3. CASE ConnectResolve(c, d)
    <3>1. PICK R \in Evictions(d) :
            /\ phase' = [Cleared(phase, R, "gone") EXCEPT ![c] = "dns"]
            /\ dev' = [Cleared(dev, R, None) EXCEPT ![c] = d]
            /\ devSess' = DevSessWithout(R)
      BY <2>3 DEF ConnectResolve
    <3>2. R \in SUBSET Sessions BY <1>0, EvictionSmall
    <3>3. phase[c] = "none" BY <2>3 DEF ConnectResolve, MayConnect
    <3>4. \A x \in Conn : phase'[x] = IF x = c THEN "dns"
                                      ELSE IF x \in R THEN "gone" ELSE phase[x]
      BY <1>0, <3>1 DEF Cleared, TypeOK
    <3>5. \A x \in Conn : dev'[x] = IF x = c THEN d
                                    ELSE IF x \in R THEN None ELSE dev[x]
      BY <1>0, <3>1 DEF Cleared, TypeOK
    <3>6. \A x \in Conn : /\ Mapped(phase'[x]) <=> Mapped(phase[x]) /\ x \notin R
                          /\ Mapped(phase'[x]) => dev'[x] = dev[x]
                          /\ Unborn(phase'[x]) => Unborn(phase[x])
      BY <3>3, <3>4, <3>5 DEF Mapped, Unborn
    <3> QED BY <1>1, <3>1, <3>2, <3>6, DeviceEnd
  <2> QED BY <1>2, <2>1, <2>2, <2>3
<1>3. ASSUME NEW c \in Conn, ResolveAllowed(c) \/ ResolveDenied(c)
      PROVE  LeftOwn' /\ DeviceIndexExact'
  <2>0. phase[c] = "dns" /\ arbitrary /\ dev[c] \in Device \cup {None}
    BY <1>0, <1>3 DEF ResolveAllowed, ResolveDenied, DeviceInv, NoLookups, TypeOK
  <2>1. CASE ResolveAllowed(c)
    <3>1. AttachNew(c, dev[c], {}) BY <2>1 DEF ResolveAllowed
    <3>2. Unborn(phase[c]) BY <2>0 DEF Unborn
    <3> QED BY <1>1, <2>0, <3>1, <3>2, DeviceConnect
  <2>2. CASE ResolveDenied(c)
    <3>1. Drop({c}) BY <2>2 DEF ResolveDenied, RemoveSession
    <3>2. \A x \in Conn : phase'[x] = IF x = c THEN "gone" ELSE phase[x]
      BY <3>1 DEF Drop, Cleared
    <3>3. \A x \in Conn : dev'[x] = IF x = c THEN None ELSE dev[x]
      BY <3>1 DEF Drop, Cleared
    <3>4. \A x \in Conn : /\ Mapped(phase'[x]) <=> Mapped(phase[x])
                          /\ Mapped(phase'[x]) => dev'[x] = dev[x]
                          /\ Unborn(phase'[x]) => Unborn(phase[x])
      BY <2>0, <3>2, <3>3 DEF Mapped, Unborn
    <3>5. \A d \in Device : c \notin devSess[d] BY <1>0, <2>0 DEF LeftOwn, Unborn
    <3>6. DevSessWithout({c}) = DevSessWithout({})
      BY <3>5 DEF DevSessWithout
    <3>7. {} \in SUBSET Sessions /\ devSess' = DevSessWithout({})
      BY <3>1, <3>6 DEF Drop
    <3> QED BY <1>1, <3>4, <3>7, DeviceEnd
  <2> QED BY <1>3, <2>1, <2>2
<1>4. ASSUME NEW c \in Conn, DialSucceeds(c) PROVE LeftOwn' /\ DeviceIndexExact'
  <2>1. \A x \in Conn : /\ Mapped(phase'[x]) <=> Mapped(phase[x])
                        /\ Unborn(phase'[x]) => Unborn(phase[x])
    BY <1>0, <1>4 DEF DialSucceeds, TypeOK, Mapped, Unborn
  <2> QED BY <1>4, <1>b, <2>1 DEF DialSucceeds, mapVars
<1>5. ASSUME NEW c \in Conn, TelnetClosed(c) \/ TelnetError(c)
      PROVE  LeftOwn' /\ DeviceIndexExact'
  <2>1. CASE clients[c] # {}
    BY <1>5, <1>c, <2>1 DEF TelnetClosed, TelnetError, mapVars
  <2>2. CASE clients[c] = {}
    <3>1. \/ Drop({c} \cap Sessions)
          \/ Drop({c}) /\ c \in Sessions
      BY <1>5, <2>2 DEF TelnetClosed, TelnetError, RemoveSession, TelnetConnected, Sessions
    <3> QED BY <1>a, <3>1
  <2> QED BY <2>1, <2>2
<1>6. ASSUME NEW c \in Conn, TerminationTimer(c) \/ RemovalTimer(c)
      PROVE  LeftOwn' /\ DeviceIndexExact'
  BY <1>6, <1>a DEF TerminationTimer, RemovalTimer, RemoveSession
<1>7. ASSUME NEW s \in Socket, NEW c \in Conn, NEW d \in ResumeTokens, Resume(s, c, d)
      PROVE  LeftOwn' /\ DeviceIndexExact'
  <2>0. c \in Sessions /\ d \in Device \cup {None}
    BY <1>7, ConstantsAssumption DEF Resume, Sessions
  <2>1. CASE idle[c]
    <3>1. Drop({c}) BY <1>7, <2>1 DEF Resume, RemoveSession
    <3> QED BY <1>a, <2>0, <3>1
  <2>2. CASE ~idle[c]
    <3>0. /\ dev' = IF d = None THEN dev ELSE [dev EXCEPT ![c] = d]
          /\ UNCHANGED <<phase, devSess>>
      BY <1>7, <2>2 DEF Resume
    <3>1. CASE d = None \/ d = dev[c]
      <4>1. dev' = dev BY <1>0, <3>0, <3>1 DEF TypeOK
      <4> QED BY <1>c, <3>0, <4>1
    <3>2. CASE d # None /\ d # dev[c]
      <4>1. d \in Device /\ dev' = [dev EXCEPT ![c] = d] BY <2>0, <3>0, <3>2
      <4> QED BY <1>1, <2>0, <3>0, <3>2, <4>1, DeviceMoves
    <3> QED BY <3>1, <3>2
  <2> QED BY <2>1, <2>2
<1>8. ASSUME NEW s \in Socket, Disconnect(s) PROVE LeftOwn' /\ DeviceIndexExact'
  <2>1. sockSess[s] \in Sessions /\ Drop({sockSess[s]})
    BY <1>0, <1>8 DEF Disconnect, Sessions, TypeOK
  <2> QED BY <1>a, <2>1
<1>13. ASSUME NEW s \in Socket, SocketClosed(s) PROVE LeftOwn' /\ DeviceIndexExact'
  BY <1>13, <1>c DEF SocketClosed, DetachSocket
<1>10. ASSUME NEW c \in Conn, GraceElapses(c) \/ TimeoutElapses(c)
       PROVE  LeftOwn' /\ DeviceIndexExact'
  BY <1>10, <1>c DEF GraceElapses, TimeoutElapses, mapVars
<1>11. ASSUME NEW c \in Conn, DialFails(c) \/ ReapClientless(c) \/ CleanupInactive(c)
       PROVE  LeftOwn' /\ DeviceIndexExact'
  <2>1. c \in Sessions /\ Drop({c})
    BY <1>11 DEF DialFails, ReapClientless, CleanupInactive, RemoveSession, Sessions, InMap
  <2> QED BY <1>a, <2>1
<1>12. CASE UNCHANGED vars
  BY <1>12, <1>c DEF vars, sessVars, mapVars
<1> QED
  BY <1>2, <1>3, <1>4, <1>5, <1>6, <1>7, <1>8, <1>10, <1>11, <1>12, <1>13
  DEF Next, Client, Upstream, Timers

(* A name is only looked up in arbitrary mode. *)
LEMMA NoLookupsStep ==
  ASSUME TypeOK, NoLookups, ~arbitrary, [Next]_vars PROVE NoLookups'
<1>a. ASSUME NEW R, phase' = Cleared(phase, R, "gone") PROVE NoLookups'
  BY <1>a DEF NoLookups, Cleared
<1>b. ASSUME UNCHANGED phase PROVE NoLookups' BY <1>b DEF NoLookups
<1>1. ASSUME NEW c \in Conn, NEW d \in ConnectTokens,
             ConnectRefused(c, d) \/ ConnectDial(c, d) \/ ConnectResolve(c, d)
      PROVE  NoLookups'
  <2>1. CASE ConnectRefused(c, d)
    BY <1>a, <2>1 DEF ConnectRefused, RemoveSession, Drop
  <2>2. CASE ConnectDial(c, d)
    <3>1. PICK R : phase' = [Cleared(phase, R, "gone") EXCEPT ![c] = "dialing"]
      BY <2>2 DEF ConnectDial, AttachNew
    <3> QED BY <3>1 DEF NoLookups, Cleared
  <2>3. CASE ConnectResolve(c, d) BY <2>3 DEF ConnectResolve
  <2> QED BY <1>1, <2>1, <2>2, <2>3
<1>2. ASSUME NEW c \in Conn, ResolveAllowed(c) \/ ResolveDenied(c) PROVE NoLookups'
  BY <1>2 DEF ResolveAllowed, ResolveDenied, NoLookups
<1>3. ASSUME NEW c \in Conn, DialSucceeds(c) PROVE NoLookups'
  BY <1>3 DEF DialSucceeds, NoLookups, TypeOK
<1>4. ASSUME NEW c \in Conn,
             \/ TelnetClosed(c) \/ TelnetError(c) \/ DialFails(c)
             \/ TerminationTimer(c) \/ RemovalTimer(c)
             \/ ReapClientless(c) \/ CleanupInactive(c)
      PROVE  NoLookups'
  BY <1>4, <1>a, <1>b DEF TelnetClosed, TelnetError, DialFails, TerminationTimer,
     RemovalTimer, ReapClientless, CleanupInactive, RemoveSession, Drop
<1>5. ASSUME NEW s \in Socket, NEW c \in Conn, NEW d \in ResumeTokens, Resume(s, c, d)
      PROVE  NoLookups'
  BY <1>5, <1>a, <1>b DEF Resume, RemoveSession, Drop
<1>6. ASSUME NEW s \in Socket, Disconnect(s) \/ SocketClosed(s) PROVE NoLookups'
  BY <1>6, <1>a, <1>b DEF Disconnect, SocketClosed, DetachSocket, Drop
<1>7. ASSUME NEW c \in Conn, GraceElapses(c) \/ TimeoutElapses(c) PROVE NoLookups'
  BY <1>7, <1>b DEF GraceElapses, TimeoutElapses
<1>8. CASE UNCHANGED vars BY <1>8, <1>b DEF vars, sessVars
<1> QED
  BY <1>1, <1>2, <1>3, <1>4, <1>5, <1>6, <1>7, <1>8 DEF Next, Client, Upstream, Timers

(* The device index starts empty. *)
LEMMA DeviceInit == Init => DeviceInv
<1> SUFFICES ASSUME Init PROVE DeviceInv OBVIOUS
<1>1. AttachInv BY AttachInit
<1>2. NoLookups BY DEF Init, NoLookups
<1>3. Sessions = {} BY DEF Init, Sessions, InMap
<1>4. ASSUME NEW d \in Device
      PROVE  devSess[d] = {} /\ Cardinality(devSess[d]) <= MaxPerDevice
  BY FS_EmptySet, ConstantsAssumption DEF Init
<1>5. LeftOwn BY DEF Init, LeftOwn
<1> QED BY <1>1, <1>2, <1>3, <1>4, <1>5 DEF DeviceInv, DeviceIndexExact

(* The target mode does not change, so the invariant of the mode is kept. *)
LEMMA DeviceNext == DeviceInv /\ [Step]_<<vars, arbitrary, left>> => DeviceInv'
<1> SUFFICES ASSUME DeviceInv, [Step]_<<vars, arbitrary, left>> PROVE DeviceInv'
  OBVIOUS
<1>0. TypeOK BY DEF DeviceInv, AttachInv
<1>1. [Next]_vars /\ arbitrary' = arbitrary BY StepIsNext DEF Step
<1>2. AttachInv' BY <1>1, AttachNext DEF DeviceInv
<1>3. ~arbitrary' => NoLookups' BY <1>0, <1>1, NoLookupsStep DEF DeviceInv
<1>4. LeftOwn' /\ DeviceIndexExact'
  <2>1. CASE Step BY <1>1, <2>1, DeviceStep DEF Step
  <2>2. CASE UNCHANGED <<vars, arbitrary, left>>
    <3>1. UNCHANGED <<phase, dev, devSess, arbitrary, left>>
      BY <2>2 DEF vars, sessVars, mapVars
    <3>2. Sessions' = Sessions BY <3>1 DEF Sessions, InMap
    <3> QED BY <3>1, <3>2 DEF DeviceInv, LeftOwn, DeviceIndexExact
  <2> QED BY <2>1, <2>2
<1> QED BY <1>2, <1>3, <1>4 DEF DeviceInv

(* Both indexes of SessionManager are exact, whatever tokens connect and   *)
(* resume frames carry: input, closes and evictions act on the sessions as *)
(* they are, but for those whose token a resume frame replaced, and        *)
(* MAX_SESSIONS_PER_DEVICE bounds the entries of a token no session was    *)
(* taken away from.                                                        *)
THEOREM IndexesTheorem == Spec => []IndexesExact
<1>1. DeviceInv => IndexesExact BY DEF DeviceInv, AttachInv, IndexesExact
<1> QED BY DeviceInit, DeviceNext, <1>1, PTL DEF Spec

-----------------------------------------------------------------------------
(* The connection limits: the counters are exact, maxPerIP and maxGlobal   *)
(* bound what is open upstream, and the lease specification is             *)
(* implemented.                                                            *)
(*                                                                         *)
(* CapacityBounded speaks of sets the code does not have, and the code     *)
(* compares counters: it is not inductive alone.  With the counters exact  *)
(* and their sums bounded it is, and exactness in turn needs the types     *)
(* (a decrement below zero is silently skipped by the code).               *)

SumsBounded ==
  /\ \A i \in IP : est[i] + pend[i] <= MaxPerIP
  /\ globalEst + globalPend <= MaxGlobal

CapInv == TypeOK /\ CountersExact /\ SumsBounded

-----------------------------------------------------------------------------
(* Finite sets.                                                            *)

(* Sets of connections are finite. *)
LEMMA ConnFinite ==
  ASSUME NEW S \in SUBSET Conn
  PROVE  IsFiniteSet(S) /\ Cardinality(S) \in Nat
<1>1. IsFiniteSet(S) BY FS_Subset, ConstantsAssumption
<1> QED BY <1>1, FS_CardinalityType

(* Taking away at most one connection lowers a cardinality by one or not at all. *)
LEMMA CardWithout ==
  ASSUME NEW S \in SUBSET Conn, NEW R, Small(R)
  PROVE  /\ (\E x \in R : x \in S) => /\ Cardinality(S) > 0
                                     /\ Cardinality(S \ R) = Cardinality(S) - 1
         /\ ~(\E x \in R : x \in S) => Cardinality(S \ R) = Cardinality(S)
<1>0. IsFiniteSet(S) /\ Cardinality(S) \in Nat BY ConnFinite
<1>1. CASE R = {}
  <2>1. S \ R = S BY <1>1
  <2> QED BY <1>1, <2>1
<1>2. CASE \E x \in Conn : R = {x}
  <2>1. PICK x \in Conn : R = {x} BY <1>2
  <2>2. Cardinality(S \ {x}) = IF x \in S THEN Cardinality(S) - 1
                                          ELSE Cardinality(S)
    BY <1>0, FS_RemoveElement
  <2>3. Cardinality(S \ {x}) \in Nat BY ConnFinite
  <2> QED BY <1>0, <2>1, <2>2, <2>3
<1> QED BY <1>1, <1>2 DEF Small

(* A counter that is exact for S is exact for S without R after one        *)
(* decrement, made exactly when R is in S.                                 *)
LEMMA CounterWithout ==
  ASSUME NEW S \in SUBSET Conn, NEW R, Small(R), NEW n \in Nat, NEW m,
         n = Cardinality(S),
         m = IF \E x \in R : x \in S THEN Monus1(n) ELSE n
  PROVE  m = Cardinality(S \ R) /\ m <= n
<1>1. CASE \E x \in R : x \in S
  <2>1. n > 0 /\ Cardinality(S \ R) = n - 1 BY <1>1, CardWithout
  <2>2. m = n - 1 BY <1>1, <2>1 DEF Monus1
  <2> QED BY <2>1, <2>2
<1>2. CASE ~(\E x \in R : x \in S)
  <2>1. Cardinality(S \ R) = n BY <1>2, CardWithout
  <2>2. m = n BY <1>2
  <2> QED BY <2>1, <2>2
<1> QED BY <1>1, <1>2

(* Adding a new connection raises a cardinality by one. *)
LEMMA CardWith ==
  ASSUME NEW S \in SUBSET Conn, NEW c \in Conn, c \notin S
  PROVE  Cardinality(S \cup {c}) = Cardinality(S) + 1
  BY ConnFinite, FS_AddElement

-----------------------------------------------------------------------------
(* What the counters are once R has given its capacity back. *)
LEMMA WithoutExact ==
  ASSUME TypeOK, CountersExact, NEW R, Small(R)
  PROVE  /\ \A i \in IP :
              /\ PendWithout(R)[i] = Cardinality(FromIP(InFlightSet \ R, i))
              /\ EstWithout(R)[i] = Cardinality(FromIP(CountedSet \ R, i))
              /\ PendWithout(R)[i] <= pend[i] /\ EstWithout(R)[i] <= est[i]
         /\ GlobalPendWithout(R) = Cardinality(InFlightSet \ R)
         /\ GlobalEstWithout(R) = Cardinality(CountedSet \ R)
         /\ GlobalPendWithout(R) <= globalPend /\ GlobalEstWithout(R) <= globalEst
<1>0. R \subseteq Conn BY DEF Small
<1>1. ASSUME NEW i \in IP
      PROVE  /\ PendWithout(R)[i] = Cardinality(FromIP(InFlightSet \ R, i))
             /\ PendWithout(R)[i] <= pend[i]
  <2> DEFINE S == FromIP(InFlightSet, i)
  <2>1. S \in SUBSET Conn BY DEF FromIP, InFlightSet
  <2>2. FromIP(InFlightSet \ R, i) = S \ R BY DEF FromIP
  <2>3. (\E x \in R : InFlight(x) /\ IPOf(x) = i) <=> (\E x \in R : x \in S)
    BY <1>0 DEF FromIP, InFlightSet
  <2>4. pend[i] = Cardinality(S) /\ pend[i] \in Nat
    BY DEF CountersExact, TypeOK
  <2>5. PendWithout(R)[i] = IF \E x \in R : x \in S THEN Monus1(pend[i]) ELSE pend[i]
    BY <2>3 DEF PendWithout
  <2> DEFINE n == pend[i]
             m == PendWithout(R)[i]
  <2> HIDE DEF S, n, m
  <2>6. n \in Nat /\ n = Cardinality(S) BY <2>4 DEF n
  <2>7. m = IF \E x \in R : x \in S THEN Monus1(n) ELSE n BY <2>5 DEF n, m
  <2>8. m = Cardinality(S \ R) /\ m <= n BY <2>1, <2>6, <2>7, CounterWithout
  <2> QED BY <2>2, <2>8 DEF n, m
<1>2. ASSUME NEW i \in IP
      PROVE  /\ EstWithout(R)[i] = Cardinality(FromIP(CountedSet \ R, i))
             /\ EstWithout(R)[i] <= est[i]
  <2> DEFINE S == FromIP(CountedSet, i)
  <2>1. S \in SUBSET Conn BY DEF FromIP, CountedSet
  <2>2. FromIP(CountedSet \ R, i) = S \ R BY DEF FromIP
  <2>3. (\E x \in R : Counted(x) /\ IPOf(x) = i) <=> (\E x \in R : x \in S)
    BY <1>0 DEF FromIP, CountedSet
  <2>4. est[i] = Cardinality(S) /\ est[i] \in Nat
    BY DEF CountersExact, TypeOK
  <2>5. EstWithout(R)[i] = IF \E x \in R : x \in S THEN Monus1(est[i]) ELSE est[i]
    BY <2>3 DEF EstWithout
  <2> DEFINE n == est[i]
             m == EstWithout(R)[i]
  <2> HIDE DEF S, n, m
  <2>6. n \in Nat /\ n = Cardinality(S) BY <2>4 DEF n
  <2>7. m = IF \E x \in R : x \in S THEN Monus1(n) ELSE n BY <2>5 DEF n, m
  <2>8. m = Cardinality(S \ R) /\ m <= n BY <2>1, <2>6, <2>7, CounterWithout
  <2> QED BY <2>2, <2>8 DEF n, m
<1>3. /\ GlobalPendWithout(R) = Cardinality(InFlightSet \ R)
      /\ GlobalPendWithout(R) <= globalPend
  <2>1. InFlightSet \in SUBSET Conn BY DEF InFlightSet
  <2>2. globalPend = Cardinality(InFlightSet) /\ globalPend \in Nat
    BY DEF CountersExact, TypeOK
  <2>3. ASSUME NEW x \in R, InFlight(x) PROVE pend[IPOf(x)] > 0
    <3>0. x \in Conn BY <1>0
    <3>1. x \in Conn /\ IPOf(x) \in IP BY <3>0, IPOfType
    <3>2. FromIP(InFlightSet, IPOf(x)) \in SUBSET Conn BY DEF FromIP, InFlightSet
    <3>3. x \in FromIP(InFlightSet, IPOf(x)) BY <2>3, <3>1 DEF FromIP, InFlightSet
    <3>4. Cardinality(FromIP(InFlightSet, IPOf(x))) > 0
      BY <3>2, <3>3, ConnFinite, FS_EmptySet
    <3> QED BY <3>1, <3>4 DEF CountersExact
  <2>4. (\E x \in R : InFlight(x) /\ pend[IPOf(x)] > 0)
          <=> (\E x \in R : x \in InFlightSet)
    BY <1>0, <2>3 DEF InFlightSet
  <2>5. GlobalPendWithout(R) = IF \E x \in R : x \in InFlightSet
                               THEN Monus1(globalPend) ELSE globalPend
    BY <2>4 DEF GlobalPendWithout
  <2> QED BY <2>1, <2>2, <2>5, CounterWithout
<1>4. /\ GlobalEstWithout(R) = Cardinality(CountedSet \ R)
      /\ GlobalEstWithout(R) <= globalEst
  <2>1. CountedSet \in SUBSET Conn BY DEF CountedSet
  <2>2. globalEst = Cardinality(CountedSet) /\ globalEst \in Nat
    BY DEF CountersExact, TypeOK
  <2>3. ASSUME NEW x \in R, Counted(x) PROVE est[IPOf(x)] > 0
    <3>0. x \in Conn BY <1>0
    <3>1. x \in Conn /\ IPOf(x) \in IP BY <3>0, IPOfType
    <3>2. FromIP(CountedSet, IPOf(x)) \in SUBSET Conn BY DEF FromIP, CountedSet
    <3>3. x \in FromIP(CountedSet, IPOf(x)) BY <2>3, <3>1 DEF FromIP, CountedSet
    <3>4. Cardinality(FromIP(CountedSet, IPOf(x))) > 0
      BY <3>2, <3>3, ConnFinite, FS_EmptySet
    <3> QED BY <3>1, <3>4 DEF CountersExact
  <2>4. (\E x \in R : Counted(x) /\ est[IPOf(x)] > 0)
          <=> (\E x \in R : x \in CountedSet)
    BY <1>0, <2>3 DEF CountedSet
  <2>5. GlobalEstWithout(R) = IF \E x \in R : x \in CountedSet
                              THEN Monus1(globalEst) ELSE globalEst
    BY <2>4 DEF GlobalEstWithout
  <2> QED BY <2>1, <2>2, <2>5, CounterWithout
<1> QED BY <1>1, <1>2, <1>3, <1>4

-----------------------------------------------------------------------------
(* The three ways a step changes the counters, and the one in which it     *)
(* does not.                                                               *)

(* phase changes nothing the counters measure. *)
LEMMA CapSame ==
  ASSUME CapInv, UNCHANGED capVars,
         InFlightSet' = InFlightSet, CountedSet' = CountedSet
  PROVE  CountersExact' /\ SumsBounded'
<1>1. est' = est /\ pend' = pend /\ globalEst' = globalEst /\ globalPend' = globalPend
  BY DEF capVars
<1>2. CountersExact'
  BY <1>1 DEF CapInv, CountersExact, FromIP
<1>3. SumsBounded' BY <1>1 DEF CapInv, SumsBounded
<1> QED BY <1>2, <1>3

(* A removal, by whichever path. *)
LEMMA RemovedSets ==
  ASSUME TypeOK, NEW R, Small(R), phase' = Cleared(phase, R, "gone")
  PROVE  InFlightSet' = InFlightSet \ R /\ CountedSet' = CountedSet \ R
  BY DEF InFlightSet, CountedSet, InFlight, Counted, Cleared, TypeOK, IPOf

(* removeSession keeps the counters exact and their sums bounded. *)
LEMMA CapRemove ==
  ASSUME CapInv, NEW R, Small(R),
         phase' = Cleared(phase, R, "gone"), ReleaseCapacity(R)
  PROVE  CountersExact' /\ SumsBounded'
<1>0. TypeOK /\ CountersExact /\ SumsBounded BY DEF CapInv
<1>1. InFlightSet' = InFlightSet \ R /\ CountedSet' = CountedSet \ R
  BY <1>0, RemovedSets
<1>2. /\ est' = EstWithout(R) /\ pend' = PendWithout(R)
      /\ globalEst' = GlobalEstWithout(R) /\ globalPend' = GlobalPendWithout(R)
  BY DEF ReleaseCapacity
<1>3. /\ \A i \in IP :
           /\ pend'[i] = Cardinality(FromIP(InFlightSet \ R, i))
           /\ est'[i] = Cardinality(FromIP(CountedSet \ R, i))
           /\ pend'[i] <= pend[i] /\ est'[i] <= est[i]
      /\ globalPend' = Cardinality(InFlightSet \ R)
      /\ globalEst' = Cardinality(CountedSet \ R)
      /\ globalPend' <= globalPend /\ globalEst' <= globalEst
  BY <1>0, <1>2, WithoutExact
<1>4. CountersExact'
  BY <1>1, <1>3 DEF CountersExact, FromIP
<1>5. /\ est' \in [IP -> Nat] /\ pend' \in [IP -> Nat]
      /\ globalEst' \in Nat /\ globalPend' \in Nat
  BY <1>0, <1>2, ReleaseType
<1>6. SumsBounded'
  BY <1>0, <1>3, <1>5, ConstantsAssumption DEF SumsBounded, TypeOK
<1> QED BY <1>4, <1>6

(* An authorised connect: R is evicted, c reserves. *)
LEMMA GrantedSets ==
  ASSUME TypeOK, NEW R, Small(R), R \subseteq Sessions,
         NEW c \in Conn, phase[c] = "none", NEW p \in {"dns", "dialing"},
         phase' = [Cleared(phase, R, "gone") EXCEPT ![c] = p]
  PROVE  /\ c \notin R /\ c \notin InFlightSet /\ c \notin CountedSet
         /\ InFlightSet' = (InFlightSet \ R) \cup {c}
         /\ CountedSet' = CountedSet \ R
<1>1. c \notin R BY DEF Sessions, InMap
<1>2. c \notin InFlightSet /\ c \notin CountedSet
  BY DEF InFlightSet, CountedSet, InFlight, Counted
<1>3. \A x \in Conn : phase'[x] = IF x = c THEN p
                                   ELSE IF x \in R THEN "gone" ELSE phase[x]
  BY DEF Cleared
<1>4. InFlightSet' = (InFlightSet \ R) \cup {c}
  BY <1>1, <1>3 DEF InFlightSet, InFlight
<1>5. CountedSet' = CountedSet \ R
  BY <1>1, <1>2, <1>3 DEF CountedSet, Counted, IPOf
<1> QED BY <1>1, <1>2, <1>4, <1>5

(* reservePendingDial, after an eviction, does so too: its guard is what bounds the sums. *)
LEMMA CapGrant ==
  ASSUME CapInv, NEW R, Small(R), R \subseteq Sessions,
         NEW c \in Conn, phase[c] = "none", NEW p \in {"dns", "dialing"},
         phase' = [Cleared(phase, R, "gone") EXCEPT ![c] = p],
         Reserve(c, R)
  PROVE  CountersExact' /\ SumsBounded'
<1>0. TypeOK /\ CountersExact /\ SumsBounded BY DEF CapInv
<1>1. /\ c \notin R /\ c \notin InFlightSet
      /\ InFlightSet' = (InFlightSet \ R) \cup {c} /\ CountedSet' = CountedSet \ R
  BY <1>0, GrantedSets
<1> DEFINE E == EstWithout(R)
           P == PendWithout(R)
           GE == GlobalEstWithout(R)
           GP == GlobalPendWithout(R)
<1>2. /\ E \in [IP -> Nat] /\ P \in [IP -> Nat] /\ GE \in Nat /\ GP \in Nat
  BY <1>0, ReleaseType
<1>3. /\ \A i \in IP : /\ P[i] = Cardinality(FromIP(InFlightSet \ R, i))
                       /\ E[i] = Cardinality(FromIP(CountedSet \ R, i))
                       /\ P[i] <= pend[i] /\ E[i] <= est[i]
      /\ GP = Cardinality(InFlightSet \ R) /\ GE = Cardinality(CountedSet \ R)
      /\ GP <= globalPend /\ GE <= globalEst
  BY <1>0, WithoutExact
<1>4. /\ est' = E /\ globalEst' = GE
      /\ pend' = [P EXCEPT ![IPOf(c)] = @ + 1] /\ globalPend' = GP + 1
      /\ E[IPOf(c)] + pend[IPOf(c)] < MaxPerIP /\ GE + globalPend < MaxGlobal
  <2>1. ~ReserveRefused(c, R) BY DEF Reserve
  <2>2. /\ E[IPOf(c)] \in Nat /\ pend[IPOf(c)] \in Nat /\ globalPend \in Nat
    BY <1>0, <1>2, IPOfType DEF TypeOK
  <2> QED BY <1>2, <2>1, <2>2, ConstantsAssumption DEF Reserve, ReserveRefused
<1> HIDE DEF E, P, GE, GP
<1>5. IPOf(c) \in IP BY IPOfType
<1>6. ASSUME NEW i \in IP
      PROVE  pend'[i] = Cardinality(FromIP((InFlightSet \ R) \cup {c}, i))
  <2> DEFINE S == FromIP(InFlightSet \ R, i)
  <2>1. S \in SUBSET Conn /\ c \notin S BY <1>1 DEF FromIP, InFlightSet
  <2>2. CASE i = IPOf(c)
    <3>1. FromIP((InFlightSet \ R) \cup {c}, i) = S \cup {c}
      BY <2>2 DEF FromIP
    <3>2. Cardinality(S \cup {c}) = Cardinality(S) + 1 BY <2>1, CardWith
    <3>3. pend'[i] = P[i] + 1 BY <1>2, <1>4, <2>2
    <3> QED BY <1>3, <3>1, <3>2, <3>3
  <2>3. CASE i # IPOf(c)
    <3>1. FromIP((InFlightSet \ R) \cup {c}, i) = S BY <2>3 DEF FromIP
    <3>2. pend'[i] = P[i] BY <1>2, <1>4, <2>3
    <3> QED BY <1>3, <3>1, <3>2
  <2> QED BY <2>2, <2>3
<1>7. globalPend' = Cardinality((InFlightSet \ R) \cup {c})
  <2>1. InFlightSet \ R \in SUBSET Conn /\ c \notin InFlightSet \ R
    BY <1>1 DEF InFlightSet
  <2>2. Cardinality((InFlightSet \ R) \cup {c}) = Cardinality(InFlightSet \ R) + 1
    BY <2>1, CardWith
  <2> QED BY <1>3, <1>4, <2>2
<1>8. CountersExact'
  <2>1. \A i \in IP : est'[i] = Cardinality(FromIP(CountedSet \ R, i))
    BY <1>3, <1>4
  <2>2. globalEst' = Cardinality(CountedSet \ R) BY <1>3, <1>4
  <2> QED BY <1>1, <1>6, <1>7, <2>1, <2>2 DEF CountersExact, FromIP
<1>9. \A i \in IP : est'[i] + pend'[i] <= MaxPerIP
  <2> TAKE i \in IP
  <2>0. /\ E[i] \in Nat /\ P[i] \in Nat /\ est[i] \in Nat /\ pend[i] \in Nat
        /\ est[i] + pend[i] <= MaxPerIP /\ E[i] <= est[i] /\ P[i] <= pend[i]
    BY <1>0, <1>2, <1>3 DEF TypeOK, SumsBounded
  <2>1. CASE i = IPOf(c)
    <3>1. est'[i] = E[i] /\ pend'[i] = P[i] + 1 BY <1>2, <1>4, <2>1
    <3>2. E[i] + pend[i] < MaxPerIP BY <1>4, <2>1
    <3> QED BY <2>0, <3>1, <3>2, ConstantsAssumption
  <2>2. CASE i # IPOf(c)
    <3>1. est'[i] = E[i] /\ pend'[i] = P[i] BY <1>2, <1>4, <2>2
    <3> QED BY <2>0, <3>1, ConstantsAssumption
  <2> QED BY <2>1, <2>2
<1>10. globalEst' + globalPend' <= MaxGlobal
  <2>1. globalPend \in Nat BY <1>0 DEF TypeOK
  <2> QED BY <1>2, <1>3, <1>4, <2>1, ConstantsAssumption
<1> QED BY <1>8, <1>9, <1>10 DEF SumsBounded

(* A dial that connects: counted first, then its reservation is released. *)
LEMMA EstablishedSets ==
  ASSUME TypeOK, NEW c \in Conn, phase[c] = "dialing",
         phase' = [phase EXCEPT ![c] = "live"]
  PROVE  /\ c \in InFlightSet /\ c \notin CountedSet
         /\ InFlightSet' = InFlightSet \ {c}
         /\ CountedSet' = IF IPOf(c) # UnknownIP THEN CountedSet \cup {c}
                                                 ELSE CountedSet
<1>1. \A x \in Conn : phase'[x] = IF x = c THEN "live" ELSE phase[x]
  BY DEF TypeOK
<1>2. c \in InFlightSet /\ c \notin CountedSet
  BY DEF InFlightSet, CountedSet, InFlight, Counted
<1>3. InFlightSet' = InFlightSet \ {c} BY <1>1 DEF InFlightSet, InFlight
<1>4. \A x \in Conn : x \in CountedSet' <=>
        x \in CountedSet \/ (x = c /\ IPOf(c) # UnknownIP)
  BY <1>1, <1>2 DEF CountedSet, Counted, IPOf
<1>5. CountedSet' \subseteq Conn /\ CountedSet \subseteq Conn BY DEF CountedSet
<1> QED BY <1>2, <1>3, <1>4, <1>5

(* The handoff from pending to established moves one connection. *)
LEMMA CapEstablish ==
  ASSUME CapInv, NEW c \in Conn, DialSucceeds(c)
  PROVE  CountersExact' /\ SumsBounded'
<1>0. TypeOK /\ CountersExact /\ SumsBounded BY DEF CapInv
<1>1. /\ c \in InFlightSet /\ c \notin CountedSet
      /\ InFlightSet' = InFlightSet \ {c}
      /\ CountedSet' = IF IPOf(c) # UnknownIP THEN CountedSet \cup {c}
                                              ELSE CountedSet
  BY <1>0, EstablishedSets DEF DialSucceeds
<1>2. Small({c}) BY DEF Small
<1> DEFINE P == PendWithout({c})
           GP == GlobalPendWithout({c})
<1>3. /\ P \in [IP -> Nat] /\ GP \in Nat
  BY <1>0, ReleaseType
<1>4. /\ \A i \in IP : P[i] = Cardinality(FromIP(InFlightSet \ {c}, i)) /\ P[i] <= pend[i]
      /\ GP = Cardinality(InFlightSet \ {c}) /\ GP <= globalPend
  BY <1>0, <1>2, WithoutExact
<1>5. pend' = P /\ globalPend' = GP BY DEF DialSucceeds
<1>6. /\ est' = [i \in IP |-> IF i = IPOf(c) /\ i # UnknownIP
                              THEN est[i] + 1 ELSE est[i]]
      /\ globalEst' = IF IPOf(c) # UnknownIP THEN globalEst + 1 ELSE globalEst
  BY DEF DialSucceeds, EstWith, GlobalEstWith
<1>7. IPOf(c) \in IP BY IPOfType
<1> HIDE DEF P, GP
<1>8. P[IPOf(c)] = pend[IPOf(c)] - 1 /\ GP = globalPend - 1
  <2> DEFINE S == FromIP(InFlightSet, IPOf(c))
  <2>1. S \in SUBSET Conn /\ InFlightSet \in SUBSET Conn BY DEF FromIP, InFlightSet
  <2>2. c \in S BY <1>1 DEF FromIP
  <2>3. FromIP(InFlightSet \ {c}, IPOf(c)) = S \ {c} BY DEF FromIP
  <2>4. Cardinality(S \ {c}) = Cardinality(S) - 1 BY <1>2, <2>1, <2>2, CardWithout
  <2>5. Cardinality(InFlightSet \ {c}) = Cardinality(InFlightSet) - 1
    BY <1>1, <1>2, <2>1, CardWithout
  <2>6. pend[IPOf(c)] = Cardinality(S) /\ globalPend = Cardinality(InFlightSet)
    BY <1>0, <1>7 DEF CountersExact
  <2> QED BY <1>4, <1>7, <2>3, <2>4, <2>5, <2>6
<1>9. ASSUME NEW i \in IP PROVE est'[i] = Cardinality(FromIP(CountedSet', i))
  <2> DEFINE S == FromIP(CountedSet, i)
  <2>1. S \in SUBSET Conn /\ c \notin S BY <1>1 DEF FromIP, CountedSet
  <2>2. est[i] = Cardinality(S) BY <1>0 DEF CountersExact
  <2>3. CASE i = IPOf(c) /\ i # UnknownIP
    <3>1. FromIP(CountedSet', i) = S \cup {c} BY <1>1, <2>3 DEF FromIP
    <3>2. Cardinality(S \cup {c}) = Cardinality(S) + 1 BY <2>1, CardWith
    <3> QED BY <1>6, <2>2, <2>3, <3>1, <3>2
  <2>4. CASE ~(i = IPOf(c) /\ i # UnknownIP)
    <3>1. FromIP(CountedSet', i) = S BY <1>1, <2>4 DEF FromIP
    <3> QED BY <1>6, <2>2, <2>4, <3>1
  <2> QED BY <2>3, <2>4
<1>10. globalEst' = Cardinality(CountedSet')
  <2>1. CountedSet \in SUBSET Conn BY DEF CountedSet
  <2>2. Cardinality(CountedSet \cup {c}) = Cardinality(CountedSet) + 1
    BY <1>1, <2>1, CardWith
  <2>3. globalEst = Cardinality(CountedSet) BY <1>0 DEF CountersExact
  <2> QED BY <1>1, <1>6, <2>2, <2>3
<1>11. CountersExact'
  <2>1. \A i \in IP : pend'[i] = Cardinality(FromIP(InFlightSet', i))
    BY <1>1, <1>4, <1>5
  <2>2. globalPend' = Cardinality(InFlightSet') BY <1>1, <1>4, <1>5
  <2> QED BY <1>9, <1>10, <2>1, <2>2 DEF CountersExact, FromIP
<1>12. \A i \in IP : est'[i] + pend'[i] <= MaxPerIP
  <2> TAKE i \in IP
  <2>0. /\ P[i] \in Nat /\ est[i] \in Nat /\ pend[i] \in Nat
        /\ est[i] + pend[i] <= MaxPerIP /\ P[i] <= pend[i]
    BY <1>0, <1>3, <1>4 DEF TypeOK, SumsBounded
  <2>1. CASE i = IPOf(c)
    <3>1. P[i] = pend[i] - 1 BY <1>8, <2>1
    <3>2. est'[i] <= est[i] + 1 /\ est'[i] \in Nat BY <1>6, <2>0
    <3> QED BY <1>5, <2>0, <3>1, <3>2, ConstantsAssumption
  <2>2. CASE i # IPOf(c)
    <3>1. est'[i] = est[i] BY <1>6, <2>2
    <3> QED BY <1>5, <2>0, <3>1, ConstantsAssumption
  <2> QED BY <2>1, <2>2
<1>13. globalEst' + globalPend' <= MaxGlobal
  <2>1. globalEst \in Nat /\ globalPend \in Nat /\ globalEst + globalPend <= MaxGlobal
    BY <1>0 DEF TypeOK, SumsBounded
  <2> QED BY <1>3, <1>5, <1>6, <1>8, <2>1, ConstantsAssumption
<1> QED BY <1>11, <1>12, <1>13 DEF SumsBounded

-----------------------------------------------------------------------------
(* Every step of the specification is one of the four. *)

SameStep ==
  /\ InFlightSet' = InFlightSet /\ CountedSet' = CountedSet
  /\ UNCHANGED capVars

RemoveStep(R) ==
  /\ Small(R)
  /\ phase' = Cleared(phase, R, "gone")
  /\ ReleaseCapacity(R)

GrantStep(c, R) ==
  /\ Small(R) /\ R \subseteq Sessions
  /\ phase[c] = "none"
  /\ \E p \in {"dns", "dialing"} :
       phase' = [Cleared(phase, R, "gone") EXCEPT ![c] = p]
  /\ Reserve(c, R)

CapacityStep ==
  \/ SameStep
  \/ \E R \in SUBSET Conn : RemoveStep(R)
  \/ \E c \in Conn, R \in SUBSET Conn : GrantStep(c, R)
  \/ \E c \in Conn : DialSucceeds(c)

(* A step that keeps the phases keeps the two sets the counters count. *)
LEMMA PhaseSame ==
  ASSUME UNCHANGED phase, UNCHANGED capVars
  PROVE  CapacityStep
  BY DEF CapacityStep, SameStep, InFlightSet, CountedSet, InFlight, Counted, IPOf

(* Dropping at most one session is a removal step. *)
LEMMA DropStep ==
  ASSUME NEW R \in SUBSET Conn, Small(R), Drop(R)
  PROVE  CapacityStep
  BY DEF CapacityStep, RemoveStep, Drop

(* One session, if it is still there, is at most one session. *)
LEMMA OneIsSmall ==
  ASSUME NEW c \in Conn
  PROVE  /\ Small({c}) /\ {c} \in SUBSET Conn
         /\ Small({c} \cap Sessions) /\ {c} \cap Sessions \in SUBSET Conn
<1>1. {c} \cap Sessions = {} \/ {c} \cap Sessions = {c} OBVIOUS
<1> QED BY <1>1 DEF Small

(* Every step of the session core is one of four kinds, as far as capacity is concerned. *)
LEMMA StepKinds == TypeOK /\ [Next]_vars => CapacityStep
<1> SUFFICES ASSUME TypeOK, [Next]_vars PROVE CapacityStep
  OBVIOUS
<1>1. ASSUME NEW c \in Conn, NEW d \in ConnectTokens, ConnectRefused(c, d)
      PROVE  CapacityStep
  <2>1. PICK R \in Evictions(d) : RemoveSession(R) BY <1>1 DEF ConnectRefused
  <2>2. Small(R) /\ R \in SUBSET Conn BY EvictionSmall DEF Small
  <2> QED BY <2>1, <2>2, DropStep DEF RemoveSession
<1>2. ASSUME NEW c \in Conn, NEW d \in ConnectTokens, ConnectDial(c, d)
      PROVE  CapacityStep
  <2>1. PICK R \in Evictions(d) : Reserve(c, R) /\ AttachNew(c, d, R)
    BY <1>2 DEF ConnectDial
  <2>2. Small(R) /\ R \subseteq Sessions /\ R \in SUBSET Conn
    BY EvictionSmall DEF Small
  <2>3. phase' = [Cleared(phase, R, "gone") EXCEPT ![c] = "dialing"]
    BY <2>1 DEF AttachNew
  <2>4. phase[c] = "none" BY <1>2 DEF ConnectDial, MayConnect
  <2>5. GrantStep(c, R) BY <2>1, <2>2, <2>3, <2>4 DEF GrantStep
  <2> QED BY <2>2, <2>5 DEF CapacityStep
<1>3. ASSUME NEW c \in Conn, NEW d \in ConnectTokens, ConnectResolve(c, d)
      PROVE  CapacityStep
  <2>1. PICK R \in Evictions(d) :
          /\ Reserve(c, R)
          /\ phase' = [Cleared(phase, R, "gone") EXCEPT ![c] = "dns"]
    BY <1>3 DEF ConnectResolve
  <2>2. Small(R) /\ R \subseteq Sessions /\ R \in SUBSET Conn
    BY EvictionSmall DEF Small
  <2>3. phase[c] = "none" BY <1>3 DEF ConnectResolve, MayConnect
  <2>4. GrantStep(c, R) BY <2>1, <2>2, <2>3 DEF GrantStep
  <2> QED BY <2>2, <2>4 DEF CapacityStep
<1>4. ASSUME NEW c \in Conn, ResolveAllowed(c) PROVE CapacityStep
  <2>1. phase[c] = "dns" /\ UNCHANGED capVars BY <1>4 DEF ResolveAllowed
  <2>2. \A x \in Conn : phase'[x] = IF x = c THEN "dialing" ELSE phase[x]
    BY <1>4 DEF ResolveAllowed, AttachNew, Cleared, TypeOK
  <2>3. InFlightSet' = InFlightSet BY <2>1, <2>2 DEF InFlightSet, InFlight
  <2>4. CountedSet' = CountedSet BY <2>1, <2>2 DEF CountedSet, Counted, IPOf
  <2> QED BY <2>1, <2>3, <2>4 DEF CapacityStep, SameStep
<1>5. ASSUME NEW c \in Conn, ResolveDenied(c) PROVE CapacityStep
  BY <1>5, OneIsSmall, DropStep DEF ResolveDenied, RemoveSession
<1>6. ASSUME NEW c \in Conn, DialSucceeds(c) PROVE CapacityStep
  BY <1>6 DEF CapacityStep
<1>7. ASSUME NEW c \in Conn, DialFails(c) PROVE CapacityStep
  BY <1>7, OneIsSmall, DropStep DEF DialFails, RemoveSession
<1>8. ASSUME NEW c \in Conn, TelnetClosed(c) PROVE CapacityStep
  BY <1>8, OneIsSmall, DropStep, PhaseSame DEF TelnetClosed
<1>9. ASSUME NEW c \in Conn, TelnetError(c) PROVE CapacityStep
  BY <1>9, OneIsSmall, DropStep, PhaseSame DEF TelnetError, RemoveSession
<1>10. ASSUME NEW c \in Conn, TerminationTimer(c) PROVE CapacityStep
  BY <1>10, OneIsSmall, DropStep DEF TerminationTimer, RemoveSession
<1>11. ASSUME NEW c \in Conn, RemovalTimer(c) PROVE CapacityStep
  BY <1>11, OneIsSmall, DropStep DEF RemovalTimer, RemoveSession
<1>12. ASSUME NEW s \in Socket, NEW c \in Conn, NEW d \in ResumeTokens,
              Resume(s, c, d)
       PROVE  CapacityStep
  BY <1>12, OneIsSmall, DropStep, PhaseSame DEF Resume, RemoveSession
<1>13. ASSUME NEW s \in Socket, Disconnect(s) PROVE CapacityStep
  <2>1. sockSess[s] \in Conn /\ Drop({sockSess[s]})
    BY <1>13 DEF Disconnect, TypeOK
  <2> QED BY <2>1, OneIsSmall, DropStep
<1>14. ASSUME NEW s \in Socket, SocketClosed(s) PROVE CapacityStep
  BY <1>14, PhaseSame DEF SocketClosed, DetachSocket
<1>15. ASSUME NEW c \in Conn, GraceElapses(c) PROVE CapacityStep
  BY <1>15, PhaseSame DEF GraceElapses
<1>16. ASSUME NEW c \in Conn, TimeoutElapses(c) PROVE CapacityStep
  BY <1>16, PhaseSame DEF TimeoutElapses
<1>17. ASSUME NEW c \in Conn, ReapClientless(c) PROVE CapacityStep
  BY <1>17, OneIsSmall, DropStep DEF ReapClientless, RemoveSession
<1>18. ASSUME NEW c \in Conn, CleanupInactive(c) PROVE CapacityStep
  BY <1>18, OneIsSmall, DropStep DEF CleanupInactive, RemoveSession
<1>19. CASE UNCHANGED vars BY <1>19, PhaseSame DEF vars, sessVars
<1> QED
  BY <1>1, <1>2, <1>3, <1>4, <1>5, <1>6, <1>7, <1>8, <1>9, <1>10, <1>11, <1>12,
     <1>13, <1>14, <1>15, <1>16, <1>17, <1>18, <1>19
  DEF Next, Client, Upstream, Timers

-----------------------------------------------------------------------------
(* The invariant holds before the first connect. *)
LEMMA CapInit == Init => CapInv
<1> SUFFICES ASSUME Init PROVE CapInv
  OBVIOUS
<1>1. TypeOK BY InitType
<1>2. InFlightSet = {} /\ CountedSet = {}
  BY DEF Init, InFlightSet, CountedSet, InFlight, Counted
<1>3. \A i \in IP : FromIP({}, i) = {} BY DEF FromIP
<1>4. CountersExact
  BY <1>2, <1>3, FS_EmptySet DEF Init, CountersExact
<1>5. SumsBounded BY ConstantsAssumption DEF Init, SumsBounded
<1> QED BY <1>1, <1>4, <1>5 DEF CapInv

(* Every step preserves the invariant. *)
LEMMA CapNext == CapInv /\ [Next]_vars => CapInv'
<1> SUFFICES ASSUME CapInv, [Next]_vars PROVE CapInv'
  OBVIOUS
<1>1. TypeOK' BY TypeStep DEF CapInv
<1>2. CapacityStep BY StepKinds DEF CapInv
<1>3. CASE SameStep BY <1>1, <1>3, CapSame DEF SameStep, CapInv
<1>4. ASSUME NEW R \in SUBSET Conn, RemoveStep(R) PROVE CapInv'
  BY <1>1, <1>4, CapRemove DEF RemoveStep, CapInv
<1>5. ASSUME NEW c \in Conn, NEW R \in SUBSET Conn, GrantStep(c, R) PROVE CapInv'
  <2>1. CountersExact' /\ SumsBounded' BY <1>5, CapGrant DEF GrantStep
  <2> QED BY <1>1, <2>1 DEF CapInv
<1>6. ASSUME NEW c \in Conn, DialSucceeds(c) PROVE CapInv'
  <2>1. CountersExact' /\ SumsBounded' BY <1>6, CapEstablish
  <2> QED BY <1>1, <2>1 DEF CapInv
<1> QED BY <1>2, <1>3, <1>4, <1>5, <1>6 DEF CapacityStep

(* Exact counters and bounded sums bound the connections themselves. *)
LEMMA InvBounds == CapInv => CapacityBounded
<1> SUFFICES ASSUME CapInv PROVE CapacityBounded
  OBVIOUS
<1>0. TypeOK /\ CountersExact /\ SumsBounded BY DEF CapInv
<1>1. ASSUME NEW i \in IP PROVE Cardinality(FromIP(Held, i)) <= MaxPerIP
  <2> DEFINE A == FromIP(InFlightSet, i)
             B == FromIP(CountedSet, i)
  <2>1. A \in SUBSET Conn /\ B \in SUBSET Conn
    BY DEF FromIP, InFlightSet, CountedSet
  <2>2. FromIP(Held, i) = A \cup B BY DEF FromIP, Held
  <2>3. IsFiniteSet(A) /\ IsFiniteSet(B) BY <2>1, ConnFinite
  <2>4. A \cap B \in SUBSET Conn BY <2>1
  <2>5. Cardinality(A \cup B) = Cardinality(A) + Cardinality(B) - Cardinality(A \cap B)
    BY <2>3, FS_Union
  <2>6. pend[i] = Cardinality(A) /\ est[i] = Cardinality(B) BY <1>0 DEF CountersExact
  <2>7. /\ Cardinality(A) \in Nat /\ Cardinality(B) \in Nat
        /\ Cardinality(A \cap B) \in Nat
    BY <2>1, <2>4, ConnFinite
  <2>8. est[i] + pend[i] <= MaxPerIP BY <1>0 DEF SumsBounded
  <2> HIDE DEF A, B
  <2> QED BY <2>2, <2>5, <2>6, <2>7, <2>8, ConstantsAssumption
<1>2. Cardinality(Held) <= MaxGlobal
  <2> DEFINE A == InFlightSet
             B == CountedSet
  <2>1. A \in SUBSET Conn /\ B \in SUBSET Conn BY DEF InFlightSet, CountedSet
  <2>2. Held = A \cup B BY DEF Held
  <2>3. IsFiniteSet(A) /\ IsFiniteSet(B) BY <2>1, ConnFinite
  <2>4. A \cap B \in SUBSET Conn BY <2>1
  <2>5. Cardinality(A \cup B) = Cardinality(A) + Cardinality(B) - Cardinality(A \cap B)
    BY <2>3, FS_Union
  <2>6. globalPend = Cardinality(A) /\ globalEst = Cardinality(B)
    BY <1>0 DEF CountersExact
  <2>7. /\ Cardinality(A) \in Nat /\ Cardinality(B) \in Nat
        /\ Cardinality(A \cap B) \in Nat
    BY <2>1, <2>4, ConnFinite
  <2>8. globalEst + globalPend <= MaxGlobal BY <1>0 DEF SumsBounded
  <2> HIDE DEF A, B
  <2> QED BY <2>2, <2>5, <2>6, <2>7, <2>8, ConstantsAssumption
<1> QED BY <1>1, <1>2 DEF CapacityBounded

(* No path through authorizeConnect, dialSession and the removal of a      *)
(* session leaks or doubles a reservation or an established count.         *)
THEOREM CountersTheorem == Spec => []CountersExact
<1>1. CapInv => CountersExact BY DEF CapInv
<1> QED BY <1>1, CapInit, CapNext, StepIsNext, PTL DEF Spec

(* maxPerIP and maxGlobal bound the dials and established sessions         *)
(* together, in every target mode.                                         *)
THEOREM CapacityTheorem == Spec => []CapacityBounded
  BY CapInit, CapNext, InvBounds, StepIsNext, PTL DEF Spec

-----------------------------------------------------------------------------
(* SessionProxy implements CapacityLease under the mapping that forgets    *)
(* the counters and keeps the set of connections they count.               *)

(* The instance has its own copy of Cardinality. *)
LEMMA LeaseCardinality == \A S : Lease!Cardinality(S) = Cardinality(S)
  BY DEF Lease!Cardinality, Cardinality, Lease!IsFiniteSet, IsFiniteSet

(* Before the first connect no lease is held. *)
LEMMA LeaseInit == Init => Lease!Init
  BY DEF Init, Lease!Init, Held, InFlightSet, CountedSet, InFlight, Counted

(* The counters the guard of reservePendingDial reads are at least what is *)
(* held once the evicted session is gone.                                  *)
LEMMA GuardSound ==
  ASSUME CapInv, NEW c \in Conn, NEW R \in SUBSET Conn, GrantStep(c, R)
  PROVE  /\ Cardinality(Lease!SameAddress(Held \ R, c)) < MaxPerIP
         /\ Cardinality(Held \ R) < MaxGlobal
<1>0. /\ TypeOK /\ CountersExact /\ SumsBounded /\ Small(R)
      /\ ~ReserveRefused(c, R)
  BY DEF CapInv, GrantStep, Reserve
<1> DEFINE i == IPOf(c)
           A == FromIP(InFlightSet \ R, i)
           B == FromIP(CountedSet \ R, i)
           GA == InFlightSet \ R
           GB == CountedSet \ R
<1>1. i \in IP BY IPOfType
<1>2. /\ A \in SUBSET Conn /\ B \in SUBSET Conn
      /\ GA \in SUBSET Conn /\ GB \in SUBSET Conn
  BY DEF FromIP, InFlightSet, CountedSet
<1>3. Lease!SameAddress(Held \ R, c) = A \cup B /\ Held \ R = GA \cup GB
  BY DEF Lease!SameAddress, FromIP, Held
<1>4. /\ PendWithout(R)[i] = Cardinality(A) /\ EstWithout(R)[i] = Cardinality(B)
      /\ PendWithout(R)[i] <= pend[i]
      /\ GlobalPendWithout(R) = Cardinality(GA)
      /\ GlobalEstWithout(R) = Cardinality(GB)
      /\ GlobalPendWithout(R) <= globalPend
  BY <1>0, <1>1, WithoutExact
<1>5. /\ EstWithout(R)[i] + pend[i] < MaxPerIP
      /\ GlobalEstWithout(R) + globalPend < MaxGlobal
  <2>1. /\ EstWithout(R)[i] \in Nat /\ pend[i] \in Nat
        /\ GlobalEstWithout(R) \in Nat /\ globalPend \in Nat
    BY <1>0, <1>1, ReleaseType DEF TypeOK
  <2> QED BY <1>0, <2>1, ConstantsAssumption DEF ReserveRefused
<1>6. /\ IsFiniteSet(A) /\ IsFiniteSet(B) /\ IsFiniteSet(GA) /\ IsFiniteSet(GB)
      /\ Cardinality(A) \in Nat /\ Cardinality(B) \in Nat
      /\ Cardinality(GA) \in Nat /\ Cardinality(GB) \in Nat
  BY <1>2, ConnFinite
<1>7. A \cap B \in SUBSET Conn /\ GA \cap GB \in SUBSET Conn BY <1>2
<1>8. Cardinality(A \cap B) \in Nat /\ Cardinality(GA \cap GB) \in Nat
  BY <1>7, ConnFinite
<1> HIDE DEF A, B, GA, GB, i
<1>9. Cardinality(A \cup B) = Cardinality(A) + Cardinality(B) - Cardinality(A \cap B)
  BY <1>6, FS_Union
<1>10. Cardinality(GA \cup GB)
         = Cardinality(GA) + Cardinality(GB) - Cardinality(GA \cap GB)
  BY <1>6, FS_Union
<1>11. pend[i] \in Nat /\ globalPend \in Nat BY <1>0, <1>1 DEF TypeOK
<1>12. Cardinality(A \cup B) < MaxPerIP
  BY <1>4, <1>5, <1>6, <1>8, <1>9, <1>11, ConstantsAssumption
<1>13. Cardinality(GA \cup GB) < MaxGlobal
  BY <1>4, <1>5, <1>6, <1>8, <1>10, <1>11, ConstantsAssumption
<1> QED BY <1>3, <1>12, <1>13

(* Every step ends leases, grants one, or leaves them alone. *)
LEMMA LeaseStep == CapInv /\ [Next]_vars => [Lease!Next]_Held
<1> SUFFICES ASSUME CapInv, [Next]_vars PROVE [Lease!Next]_Held
  OBVIOUS
<1>0. TypeOK BY DEF CapInv
<1>1. CapacityStep BY <1>0, StepKinds
<1>2. CASE SameStep
  <2>1. Held' = Held BY <1>2 DEF SameStep, Held
  <2> QED BY <2>1
<1>3. ASSUME NEW R \in SUBSET Conn, RemoveStep(R) PROVE Lease!Next
  <2>1. InFlightSet' = InFlightSet \ R /\ CountedSet' = CountedSet \ R
    BY <1>0, <1>3, RemovedSets DEF RemoveStep
  <2>2. Held' = Held \ (R \cap Held) BY <2>1 DEF Held
  <2>3. R \cap Held \in SUBSET Held OBVIOUS
  <2> QED BY <2>2, <2>3 DEF Lease!Next, Lease!End
<1>4. ASSUME NEW c \in Conn, NEW R \in SUBSET Conn, GrantStep(c, R)
      PROVE  Lease!Next
  <2>1. /\ Small(R) /\ R \subseteq Sessions /\ phase[c] = "none"
        /\ \E p \in {"dns", "dialing"} :
             phase' = [Cleared(phase, R, "gone") EXCEPT ![c] = p]
    BY <1>4 DEF GrantStep
  <2>2. /\ c \notin R /\ c \notin InFlightSet /\ c \notin CountedSet
        /\ InFlightSet' = (InFlightSet \ R) \cup {c} /\ CountedSet' = CountedSet \ R
    BY <1>0, <2>1, GrantedSets
  <2>3. c \notin Held /\ Held' = (Held \ R) \cup {c} BY <2>2 DEF Held
  <2>4. /\ Cardinality(Lease!SameAddress(Held \ R, c)) < MaxPerIP
        /\ Cardinality(Held \ R) < MaxGlobal
    BY <1>4, GuardSound
  <2> DEFINE ended == R \cap Held
  <2>5. Held \ R = Held \ ended /\ ended \in SUBSET Held OBVIOUS
  <2> HIDE DEF ended
  <2>6. /\ Cardinality(Lease!SameAddress(Held \ ended, c)) < MaxPerIP
        /\ Cardinality(Held \ ended) < MaxGlobal
        /\ Held' = (Held \ ended) \cup {c}
    BY <2>3, <2>4, <2>5
  <2>7. Lease!Grant(c, ended) BY <2>3, <2>6, LeaseCardinality DEF Lease!Grant
  <2> QED BY <2>5, <2>7 DEF Lease!Next
<1>5. ASSUME NEW c \in Conn, DialSucceeds(c) PROVE [Lease!Next]_Held
  <2>1. /\ c \in InFlightSet /\ c \notin CountedSet
        /\ InFlightSet' = InFlightSet \ {c}
        /\ CountedSet' = IF IPOf(c) # UnknownIP THEN CountedSet \cup {c}
                                                ELSE CountedSet
    BY <1>0, <1>5, EstablishedSets DEF DialSucceeds
  <2>2. CASE IPOf(c) # UnknownIP
    <3>1. Held' = Held BY <2>1, <2>2 DEF Held
    <3> QED BY <3>1
  <2>3. CASE IPOf(c) = UnknownIP
    <3>1. Held' = Held \ {c} BY <2>1, <2>3 DEF Held
    <3>2. {c} \in SUBSET Held BY <2>1 DEF Held
    <3> QED BY <3>1, <3>2 DEF Lease!Next, Lease!End
  <2> QED BY <2>2, <2>3
<1> QED BY <1>1, <1>2, <1>3, <1>4, <1>5 DEF CapacityStep

(* The reservations and counts of SessionManager implement the leases: one *)
(* from the moment a dial is authorised until the connection ends, handed  *)
(* from pending to established without a gap, granted only below both      *)
(* limits.                                                                 *)
THEOREM LeaseTheorem == Spec => ImplementsLease
  BY LeaseInit, LeaseStep, CapInit, CapNext, StepIsNext, PTL DEF Spec, ImplementsLease, Lease!Spec

-----------------------------------------------------------------------------
(* The legacy protocol beside it.  The counters are exact only with the     *)
(* fields of a socket that closeSocket reads: a legacy connect that is not  *)
(* cut off is found through s.pendingMudTransport or s.ts (LegacyShape),    *)
(* of which a socket has at most one (FieldsOwn), so a second connect finds *)
(* the first one ended; a count it writes over is one of an address         *)
(* (LostOwn).                                                               *)

AddressSumsBounded == \A i \in IP : est[i] + pend[i] <= MaxPerIP

(* What a connect's phase p says of its being aborted (a), of the fields   *)
(* s.pendingMudTransport (pd) and s.ts (t), and of legacyCountedIp (k).    *)
ShapeOf(l, p, a, pd, t, k) ==
  /\ p \in {"none", "dns"} => t # l
  /\ p = "none" => pd # l /\ ~a
  /\ p = "dns" /\ ~a => pd = l
  /\ p = "dialing" => pd = l /\ t # l
  /\ p = "up" => t = l
  /\ p \in {"dialing", "up"} => ~a /\ (LIPOf(l) # UnknownIP => k)

LegacyShape ==
  \A l \in LConn : ShapeOf(l, lphase[l], l \in aborted, pendT[LSocketOf[l]],
                           ts[LSocketOf[l]], counted[LSocketOf[l]])

(* The fields of a socket hold that socket's connects, one at a time. *)
FieldsOwn ==
  \A s \in Socket :
    /\ pendT[s] # None => LSocketOf[pendT[s]] = s
    /\ ts[s] # None => LSocketOf[ts[s]] = s
    /\ pendT[s] = None \/ ts[s] = None

(* A count is one of a known address, and a connect writes over the one it *)
(* finds only when it dials.                                               *)
LostOwn ==
  /\ \A s \in Socket : counted[s] => AddressOf[s] # UnknownIP
  /\ \A l \in lost : lphase[l] \notin {"none", "dns"}

SharedInv ==
  /\ LTypeOK /\ SharedCountersExact /\ AddressSumsBounded
  /\ LegacyShape /\ FieldsOwn /\ LostOwn

-----------------------------------------------------------------------------
(* The counters while the typed protocol moves.                            *)

(* The legacy connects of an address are finitely many. *)
LEMMA LegacyFinite ==
  ASSUME NEW i
  PROVE  /\ IsFiniteSet(LegacyReserved(i)) /\ Cardinality(LegacyReserved(i)) \in Nat
         /\ IsFiniteSet(LegacyCounted(i)) /\ Cardinality(LegacyCounted(i)) \in Nat
         /\ IsFiniteSet(LegacyUpstream(i)) /\ Cardinality(LegacyUpstream(i)) \in Nat
         /\ Cardinality(LegacyLost(i)) \in Nat /\ LegacyCharged(i) \in Nat
<1>1. /\ LegacyReserved(i) \subseteq LConn /\ LegacyUpstream(i) \subseteq LConn
      /\ LegacyCounted(i) \subseteq Socket /\ LegacyLost(i) \subseteq LConn
  BY DEF LegacyReserved, LegacyCounted, LegacyUpstream, LegacyLost
<1>2. /\ IsFiniteSet(LegacyReserved(i)) /\ IsFiniteSet(LegacyUpstream(i))
      /\ IsFiniteSet(LegacyCounted(i)) /\ IsFiniteSet(LegacyLost(i))
  BY <1>1, FS_Subset, LegacyAssumption
<1>3. Cardinality(LegacyCounted(i)) \in Nat /\ Cardinality(LegacyLost(i)) \in Nat
  BY <1>2, FS_CardinalityType
<1> QED BY <1>2, <1>3, FS_CardinalityType DEF LegacyCharged

(* A counter that counts S and k others. *)
LEMMA SharedCounterWithout ==
  ASSUME NEW S \in SUBSET Conn, NEW R, Small(R), NEW k \in Nat, NEW n \in Nat, NEW m,
         n = Cardinality(S) + k,
         m = IF \E x \in R : x \in S THEN Monus1(n) ELSE n
  PROVE  m = Cardinality(S \ R) + k /\ m <= n
<1>0. Cardinality(S) \in Nat BY ConnFinite
<1>1. CASE \E x \in R : x \in S
  <2>1. Cardinality(S) > 0 /\ Cardinality(S \ R) = Cardinality(S) - 1
    BY <1>1, CardWithout
  <2>2. m = n - 1 BY <1>0, <1>1, <2>1 DEF Monus1
  <2> QED BY <1>0, <2>1, <2>2
<1>2. CASE ~(\E x \in R : x \in S)
  <2>1. Cardinality(S \ R) = Cardinality(S) BY <1>2, CardWithout
  <2> QED BY <1>2, <2>1
<1> QED BY <1>1, <1>2

(* What both protocols' counters are once R has given its capacity back. *)
LEMMA SharedWithout ==
  ASSUME TypeOK, SharedCountersExact, NEW R, Small(R), NEW i \in IP
  PROVE  /\ PendWithout(R)[i] = Cardinality(FromIP(InFlightSet \ R, i))
                                + Cardinality(LegacyReserved(i))
         /\ EstWithout(R)[i] = Cardinality(FromIP(CountedSet \ R, i))
                               + LegacyCharged(i)
         /\ PendWithout(R)[i] <= pend[i] /\ EstWithout(R)[i] <= est[i]
<1>0. R \subseteq Conn BY DEF Small
<1>1. /\ PendWithout(R)[i] = Cardinality(FromIP(InFlightSet \ R, i))
                             + Cardinality(LegacyReserved(i))
      /\ PendWithout(R)[i] <= pend[i]
  <2> DEFINE S == FromIP(InFlightSet, i)
             k == Cardinality(LegacyReserved(i))
             n == pend[i]
             m == PendWithout(R)[i]
  <2>1. S \in SUBSET Conn BY DEF FromIP, InFlightSet
  <2>2. FromIP(InFlightSet \ R, i) = S \ R BY DEF FromIP
  <2>3. (\E x \in R : InFlight(x) /\ IPOf(x) = i) <=> (\E x \in R : x \in S)
    BY <1>0 DEF FromIP, InFlightSet
  <2>4. n = Cardinality(S) + k /\ n \in Nat BY DEF SharedCountersExact, TypeOK
  <2>5. m = IF \E x \in R : x \in S THEN Monus1(n) ELSE n
    BY <2>3 DEF PendWithout
  <2>6. k \in Nat BY LegacyFinite
  <2> HIDE DEF S, k, n, m
  <2>7. m = Cardinality(S \ R) + k /\ m <= n
    BY <2>1, <2>4, <2>5, <2>6, SharedCounterWithout
  <2> QED BY <2>2, <2>7 DEF k, n, m
<1>2. /\ EstWithout(R)[i] = Cardinality(FromIP(CountedSet \ R, i))
                            + LegacyCharged(i)
      /\ EstWithout(R)[i] <= est[i]
  <2> DEFINE S == FromIP(CountedSet, i)
             k == LegacyCharged(i)
             n == est[i]
             m == EstWithout(R)[i]
  <2>1. S \in SUBSET Conn BY DEF FromIP, CountedSet
  <2>2. FromIP(CountedSet \ R, i) = S \ R BY DEF FromIP
  <2>3. (\E x \in R : Counted(x) /\ IPOf(x) = i) <=> (\E x \in R : x \in S)
    BY <1>0 DEF FromIP, CountedSet
  <2>4. n = Cardinality(S) + k /\ n \in Nat BY DEF SharedCountersExact, TypeOK
  <2>5. m = IF \E x \in R : x \in S THEN Monus1(n) ELSE n
    BY <2>3 DEF EstWithout
  <2>6. k \in Nat BY LegacyFinite
  <2> HIDE DEF S, k, n, m
  <2>7. m = Cardinality(S \ R) + k /\ m <= n
    BY <2>1, <2>4, <2>5, <2>6, SharedCounterWithout
  <2> QED BY <2>2, <2>7 DEF k, n, m
<1> QED BY <1>1, <1>2

(* A step of the typed protocol leaves the legacy connects as they are. *)
LEMMA LegacySetsKept ==
  ASSUME UNCHANGED <<lphase, counted, lost>>, NEW i
  PROVE  LegacyReserved(i)' = LegacyReserved(i) /\ LegacyCharged(i)' = LegacyCharged(i)
  BY DEF LegacyReserved, LegacyCharged, LegacyCounted, LegacyLost, LIPOf

(* The typed protocol keeps the shared counters exact and bounded. *)
LEMMA SharedTyped ==
  ASSUME TypeOK, SharedCountersExact, AddressSumsBounded, TypeOK',
         UNCHANGED <<lphase, counted, lost>>, CapacityStep
  PROVE  SharedCountersExact' /\ AddressSumsBounded'
<1> DEFINE LR(i) == Cardinality(LegacyReserved(i))
           LC(i) == LegacyCharged(i)
<1>0. ASSUME NEW i \in IP
      PROVE  /\ est[i] \in Nat /\ pend[i] \in Nat /\ est'[i] \in Nat /\ pend'[i] \in Nat
             /\ est[i] + pend[i] <= MaxPerIP /\ LR(i) \in Nat /\ LC(i) \in Nat
             /\ pend[i] = Cardinality(FromIP(InFlightSet, i)) + LR(i)
             /\ est[i] = Cardinality(FromIP(CountedSet, i)) + LC(i)
  BY LegacyFinite DEF TypeOK, AddressSumsBounded, SharedCountersExact
<1>1. ASSUME \A i \in IP : /\ pend'[i] = Cardinality(FromIP(InFlightSet', i)) + LR(i)
                           /\ est'[i] = Cardinality(FromIP(CountedSet', i)) + LC(i)
                           /\ est'[i] + pend'[i] <= MaxPerIP
      PROVE  SharedCountersExact' /\ AddressSumsBounded'
  <2>1. ASSUME NEW i \in IP
        PROVE  LegacyReserved(i)' = LegacyReserved(i) /\ LegacyCharged(i)' = LegacyCharged(i)
    BY LegacySetsKept
  <2> QED BY <1>1, <2>1 DEF SharedCountersExact, AddressSumsBounded, FromIP, IPOf
<1> HIDE DEF LR, LC
<1>2. CASE SameStep
  BY <1>0, <1>1, <1>2 DEF SameStep, capVars
<1>3. ASSUME NEW R \in SUBSET Conn, RemoveStep(R)
      PROVE  SharedCountersExact' /\ AddressSumsBounded'
  <2>1. InFlightSet' = InFlightSet \ R /\ CountedSet' = CountedSet \ R
    BY <1>3, RemovedSets DEF RemoveStep
  <2>2. Small(R) /\ est' = EstWithout(R) /\ pend' = PendWithout(R)
    BY <1>3 DEF RemoveStep, ReleaseCapacity
  <2>3. ASSUME NEW i \in IP
        PROVE  /\ pend'[i] = Cardinality(FromIP(InFlightSet', i)) + LR(i)
               /\ est'[i] = Cardinality(FromIP(CountedSet', i)) + LC(i)
               /\ pend'[i] <= pend[i] /\ est'[i] <= est[i]
    BY <2>1, <2>2, SharedWithout DEF LR, LC
  <2>4. ASSUME NEW i \in IP PROVE est'[i] + pend'[i] <= MaxPerIP
    BY <1>0, <2>3, ConstantsAssumption
  <2> QED BY <1>1, <2>3, <2>4
<1>4. ASSUME NEW c \in Conn, NEW R \in SUBSET Conn, GrantStep(c, R)
      PROVE  SharedCountersExact' /\ AddressSumsBounded'
  <2>1. /\ Small(R) /\ R \subseteq Sessions /\ phase[c] = "none" /\ Reserve(c, R)
        /\ \E p \in {"dns", "dialing"} :
             phase' = [Cleared(phase, R, "gone") EXCEPT ![c] = p]
    BY <1>4 DEF GrantStep
  <2>2. /\ c \notin R /\ c \notin InFlightSet
        /\ InFlightSet' = (InFlightSet \ R) \cup {c} /\ CountedSet' = CountedSet \ R
    BY <2>1, GrantedSets
  <2> DEFINE E == EstWithout(R)
             P == PendWithout(R)
  <2>3. /\ E \in [IP -> Nat] /\ P \in [IP -> Nat] BY ReleaseType
  <2>4. ASSUME NEW i \in IP
        PROVE  /\ P[i] = Cardinality(FromIP(InFlightSet \ R, i)) + LR(i)
               /\ E[i] = Cardinality(FromIP(CountedSet \ R, i)) + LC(i)
               /\ P[i] <= pend[i] /\ E[i] <= est[i]
    BY <2>1, SharedWithout DEF LR, LC
  <2>5. IPOf(c) \in IP BY IPOfType
  <2>6. /\ est' = E /\ pend' = [P EXCEPT ![IPOf(c)] = @ + 1]
        /\ E[IPOf(c)] + pend[IPOf(c)] < MaxPerIP
    <3>1. ~ReserveRefused(c, R) BY <2>1 DEF Reserve
    <3>2. /\ E[IPOf(c)] \in Nat /\ pend[IPOf(c)] \in Nat BY <1>0, <2>3, <2>5
    <3> QED BY <2>1, <3>1, <3>2, ConstantsAssumption DEF Reserve, ReserveRefused
  <2> HIDE DEF E, P
  <2>7. ASSUME NEW i \in IP
        PROVE  pend'[i] = Cardinality(FromIP(InFlightSet', i)) + LR(i)
    <3> DEFINE S == FromIP(InFlightSet \ R, i)
    <3>1. S \in SUBSET Conn /\ c \notin S BY <2>2 DEF FromIP, InFlightSet
    <3>0. Cardinality(S) \in Nat BY <3>1, ConnFinite
    <3>2. CASE i = IPOf(c)
      <4>1. FromIP(InFlightSet', i) = S \cup {c} BY <2>2, <3>2 DEF FromIP
      <4>2. Cardinality(S \cup {c}) = Cardinality(S) + 1 BY <3>1, CardWith
      <4>3. pend'[i] = P[i] + 1 BY <2>3, <2>6, <3>2
      <4> QED BY <1>0, <2>4, <3>0, <4>1, <4>2, <4>3
    <3>3. CASE i # IPOf(c)
      <4>1. FromIP(InFlightSet', i) = S BY <2>2, <3>3 DEF FromIP
      <4>2. pend'[i] = P[i] BY <2>3, <2>6, <3>3
      <4> QED BY <2>4, <4>1, <4>2
    <3> QED BY <3>2, <3>3
  <2>8. ASSUME NEW i \in IP PROVE est'[i] + pend'[i] <= MaxPerIP
    <3>1. E[i] \in Nat /\ P[i] \in Nat /\ P[i] <= pend[i] /\ E[i] <= est[i]
      BY <2>3, <2>4
    <3>2. CASE i = IPOf(c)
      <4>1. est'[i] = E[i] /\ pend'[i] = P[i] + 1 BY <2>3, <2>6, <3>2
      <4>2. E[i] + pend[i] < MaxPerIP BY <2>6, <3>2
      <4> QED BY <1>0, <3>1, <4>1, <4>2, ConstantsAssumption
    <3>3. CASE i # IPOf(c)
      <4>1. est'[i] = E[i] /\ pend'[i] = P[i] BY <2>3, <2>6, <3>3
      <4> QED BY <1>0, <3>1, <4>1, ConstantsAssumption
    <3> QED BY <3>2, <3>3
  <2>9. \A i \in IP : est'[i] = Cardinality(FromIP(CountedSet', i)) + LC(i)
    BY <2>2, <2>4, <2>6
  <2> QED BY <1>1, <2>7, <2>8, <2>9
<1>5. ASSUME NEW c \in Conn, DialSucceeds(c)
      PROVE  SharedCountersExact' /\ AddressSumsBounded'
  <2>1. /\ c \in InFlightSet /\ c \notin CountedSet
        /\ InFlightSet' = InFlightSet \ {c}
        /\ CountedSet' = IF IPOf(c) # UnknownIP THEN CountedSet \cup {c}
                                                ELSE CountedSet
    BY <1>5, EstablishedSets DEF DialSucceeds
  <2>2. Small({c}) /\ pend' = PendWithout({c}) BY <1>5 DEF Small, DialSucceeds
  <2>3. \A i \in IP : est'[i] = IF i = IPOf(c) /\ i # UnknownIP THEN est[i] + 1 ELSE est[i]
    BY <1>5 DEF DialSucceeds, EstWith
  <2>4. ASSUME NEW i \in IP
        PROVE  /\ pend'[i] = Cardinality(FromIP(InFlightSet', i)) + LR(i)
               /\ pend'[i] <= pend[i]
    BY <2>1, <2>2, SharedWithout DEF LR
  <2>5. ASSUME NEW i \in IP, i = IPOf(c) PROVE pend'[i] = pend[i] - 1
    <3> DEFINE S == FromIP(InFlightSet, i)
    <3>1. S \in SUBSET Conn BY DEF FromIP, InFlightSet
    <3>2. c \in S BY <2>1, <2>5 DEF FromIP
    <3>3. FromIP(InFlightSet', i) = S \ {c} BY <2>1 DEF FromIP
    <3>4. Cardinality(S \ {c}) = Cardinality(S) - 1 BY <2>2, <3>1, <3>2, CardWithout
    <3>5. Cardinality(S) \in Nat BY <3>1, ConnFinite
    <3>6. pend[i] = Cardinality(S) + LR(i) /\ LR(i) \in Nat BY <1>0
    <3>7. pend'[i] = Cardinality(S \ {c}) + LR(i) BY <2>4, <3>3
    <3> HIDE DEF S
    <3> QED BY <3>4, <3>5, <3>6, <3>7
  <2>6. ASSUME NEW i \in IP
        PROVE  est'[i] = Cardinality(FromIP(CountedSet', i)) + LC(i)
    <3> DEFINE S == FromIP(CountedSet, i)
    <3>1. S \in SUBSET Conn /\ c \notin S BY <2>1 DEF FromIP, CountedSet
    <3>2. est[i] = Cardinality(S) + LC(i) BY <1>0
    <3>3. Cardinality(S) \in Nat BY <3>1, ConnFinite
    <3>4. CASE i = IPOf(c) /\ i # UnknownIP
      <4>1. FromIP(CountedSet', i) = S \cup {c} BY <2>1, <3>4 DEF FromIP
      <4>2. Cardinality(S \cup {c}) = Cardinality(S) + 1 BY <3>1, CardWith
      <4>3. est'[i] = est[i] + 1 BY <2>3, <3>4
      <4>4. LC(i) \in Nat BY <1>0
      <4> HIDE DEF S
      <4> QED BY <3>2, <3>3, <4>1, <4>2, <4>3, <4>4
    <3>5. CASE ~(i = IPOf(c) /\ i # UnknownIP)
      <4>1. FromIP(CountedSet', i) = S BY <2>1, <3>5 DEF FromIP
      <4> QED BY <2>3, <3>2, <3>5, <4>1
    <3> QED BY <3>4, <3>5
  <2>7. ASSUME NEW i \in IP PROVE est'[i] + pend'[i] <= MaxPerIP
    BY <1>0, <2>3, <2>4, <2>5, ConstantsAssumption
  <2> QED BY <1>1, <2>4, <2>6, <2>7
<1> QED BY <1>2, <1>3, <1>4, <1>5 DEF CapacityStep

-----------------------------------------------------------------------------
(* The legacy protocol.                                                    *)

(* The socket of a connect, and the fields that may hold it. *)
LEMMA FieldIsOwn ==
  ASSUME SharedInv, NEW l \in LConn
  PROVE  /\ LSocketOf[l] \in Socket /\ LIPOf(l) \in IP /\ l # None
         /\ \A s \in Socket : pendT[s] = l \/ ts[s] = l => s = LSocketOf[l]
  BY ConstantsAssumption, LegacyAssumption DEF SharedInv, FieldsOwn, LTypeOK, LIPOf

(* Every step keeps the fields of sockets well typed. *)
LegacyTypeOK ==
  /\ lphase \in [LConn -> {"none", "dns", "dialing", "up", "dying", "gone"}]
  /\ aborted \subseteq LConn
  /\ pendT \in [Socket -> LConn \cup {None}]
  /\ ts \in [Socket -> LConn \cup {None}]
  /\ counted \in [Socket -> BOOLEAN]
  /\ lost \subseteq LConn
  /\ timers \in [Socket -> 0 .. MaxTimers]
  /\ errored \subseteq Socket

(* rejectLegacy keeps the number of pending timers under its bound. *)
LEMMA RejectType ==
  ASSUME LTypeOK, NEW s \in Socket, RejectLegacy(s)
  PROVE  timers' \in [Socket -> 0 .. MaxTimers]
  BY LegacyAssumption DEF LTypeOK, RejectLegacy

(* closeSocket keeps the types. *)
LEMMA CloseType ==
  ASSUME LTypeOK, NEW s \in Socket, CloseSocket(s)
  PROVE  /\ SessionTypeOK' \/ open' \notin [Socket -> BOOLEAN]
         /\ CapacityTypeOK'
         /\ lphase' \in [LConn -> {"none", "dns", "dialing", "up", "dying", "gone"}]
         /\ aborted' \subseteq LConn
         /\ pendT' \in [Socket -> LConn \cup {None}]
         /\ ts' \in [Socket -> LConn \cup {None}]
         /\ counted' \in [Socket -> BOOLEAN] /\ lost' \subseteq LConn
<1>0. TypeOK BY DEF LTypeOK
<1>1. CASE /\ sockSess[s] # None /\ DetachSocket(s)
           /\ UNCHANGED <<lphase, aborted, pendT, ts, counted, lost>>
  <2>1. /\ sockSess' \in [Socket -> Conn \cup {None}] /\ tracked' \subseteq Conn
    BY <1>0, <1>1 DEF DetachSocket, TypeOK
  <2>2. SessionTypeOK' \/ open' \notin [Socket -> BOOLEAN]
    BY <1>0, <1>1, <2>1, DetachedType DEF DetachSocket, TypeOK, SessionTypeOK, endVars
  <2>3. CapacityTypeOK' BY <1>0, <1>1 DEF DetachSocket, TypeOK, CapacityTypeOK, capVars
  <2> QED BY <1>1, <2>2, <2>3 DEF LTypeOK
<1>2. CASE /\ sockSess[s] = None /\ GiveBackCount(s) /\ TearDownUpstream(s)
           /\ UNCHANGED <<sessVars, mapVars, pend, globalPend, endVars, tracked>>
  <2>1. SessionTypeOK' \/ open' \notin [Socket -> BOOLEAN]
    BY <1>0, <1>2 DEF TypeOK, SessionTypeOK, sessVars, mapVars, endVars
  <2>2. CapacityTypeOK' /\ counted' \in [Socket -> BOOLEAN] /\ lost' \subseteq LConn
    BY <1>0, <1>2, MonusType, ConstantsAssumption
    DEF GiveBackCount, LTypeOK, TypeOK, CapacityTypeOK
  <2>3. /\ lphase' \in [LConn -> {"none", "dns", "dialing", "up", "dying", "gone"}]
        /\ ts' \in [Socket -> LConn \cup {None}]
    BY <1>2 DEF TearDownUpstream, LTypeOK
  <2>4. aborted' \subseteq LConn /\ pendT' \in [Socket -> LConn \cup {None}]
    BY <1>2 DEF TearDownUpstream, LTypeOK
  <2> QED BY <2>1, <2>2, <2>3, <2>4
<1> QED BY <1>1, <1>2 DEF CloseSocket

(* A typed step is a step of the session core. *)
LEMMA TypedIsNext == TypedStep => Next /\ UNCHANGED <<open, legacyVars>>
<1> SUFFICES ASSUME TypedStep PROVE Next /\ UNCHANGED <<open, legacyVars>>
  OBVIOUS
<1>1. Next BY DEF TypedStep, Next, Client
<1>2. UNCHANGED legacyVars BY DEF TypedStep
<1>3. ASSUME NEW c \in Conn, NEW d \in ConnectTokens,
             ConnectRefused(c, d) \/ ConnectDial(c, d) \/ ConnectResolve(c, d)
      PROVE  UNCHANGED open
  BY <1>3 DEF ConnectRefused, ConnectDial, ConnectResolve
<1>4. ASSUME NEW s \in Socket, NEW c \in Conn, NEW d \in ResumeTokens, Resume(s, c, d)
      PROVE  UNCHANGED open
  BY <1>4 DEF Resume
<1>5. ASSUME NEW s \in Socket, Disconnect(s) PROVE UNCHANGED open
  BY <1>5 DEF Disconnect
<1>6. ASSUME NEW c \in Conn,
             \/ ResolveAllowed(c) \/ ResolveDenied(c) \/ DialSucceeds(c) \/ DialFails(c)
             \/ TelnetClosed(c) \/ TelnetError(c)
      PROVE  UNCHANGED open
  BY <1>6 DEF ResolveAllowed, ResolveDenied, DialSucceeds, DialFails, TelnetClosed,
     TelnetError
<1>7. ASSUME NEW c \in Conn,
             \/ TerminationTimer(c) \/ RemovalTimer(c) \/ GraceElapses(c)
             \/ TimeoutElapses(c) \/ ReapClientless(c) \/ CleanupInactive(c)
      PROVE  UNCHANGED open
  BY <1>7 DEF TerminationTimer, RemovalTimer, GraceElapses, TimeoutElapses,
     ReapClientless, CleanupInactive
<1>8. UNCHANGED open BY <1>3, <1>4, <1>5, <1>6, <1>7 DEF TypedStep, Upstream, Timers
<1> QED BY <1>1, <1>2, <1>8

(* Every step keeps the types of both protocols. *)
LEMMA LegacyTypeStep ==
  ASSUME LTypeOK, [LNext]_allVars PROVE LTypeOK'
<1>0. TypeOK /\ LegacyTypeOK BY DEF LTypeOK, LegacyTypeOK
<1>a. ASSUME NEW l \in LConn PROVE LSocketOf[l] \in Socket /\ LIPOf(l) \in IP
  BY ConstantsAssumption, LegacyAssumption DEF LIPOf
<1>1. CASE TypedStep
  <2>1. Next /\ UNCHANGED legacyVars BY <1>1, TypedIsNext
  <2>2. TypeOK' BY <1>0, <2>1, TypeStep
  <2> QED BY <1>0, <2>1, <2>2 DEF LTypeOK, LegacyTypeOK, legacyVars
<1>b. ASSUME UNCHANGED vars, LegacyTypeOK' PROVE LTypeOK'
  <2>1. TypeOK' BY <1>0, <1>b DEF TypeOK, vars, sessVars, mapVars, capVars, endVars
  <2> QED BY <1>b, <2>1 DEF LTypeOK, LegacyTypeOK
<1>c. ASSUME UNCHANGED <<open, sessVars, mapVars, endVars, tracked>>, CapacityTypeOK',
             LegacyTypeOK'
      PROVE  LTypeOK'
  <2>1. TypeOK'
    BY <1>0, <1>c DEF TypeOK, CapacityTypeOK, sessVars, mapVars, endVars
  <2> QED BY <1>c, <2>1 DEF LTypeOK, LegacyTypeOK
<1>2. ASSUME NEW l \in LConn, LegacyConnectRejected(l) PROVE LTypeOK'
  BY <1>0, <1>2, <1>a, <1>b, RejectType DEF LegacyConnectRejected, LegacyTypeOK
<1>3. ASSUME NEW l \in LConn, LegacyConnectDial(l) PROVE LTypeOK'
  <2>1. CapacityTypeOK'
    BY <1>0, <1>3, <1>a DEF LegacyConnectDial, CountLegacy, TypeOK, CapacityTypeOK
  <2>2. LegacyTypeOK'
    BY <1>0, <1>3, <1>a DEF LegacyConnectDial, CountLegacy, LegacyTypeOK
  <2> QED BY <1>3, <1>c, <2>1, <2>2 DEF LegacyConnectDial
<1>4. ASSUME NEW l \in LConn, LegacyConnectResolve(l) PROVE LTypeOK'
  <2>1. CapacityTypeOK'
    BY <1>0, <1>4, <1>a DEF LegacyConnectResolve, TypeOK, CapacityTypeOK
  <2>2. LegacyTypeOK'
    BY <1>0, <1>4, <1>a DEF LegacyConnectResolve, LegacyTypeOK
  <2> QED BY <1>4, <1>c, <2>1, <2>2 DEF LegacyConnectResolve
<1>5. ASSUME NEW l \in LConn, LegacyResolveAllowed(l) PROVE LTypeOK'
  <2>1. pend' \in [IP -> Nat] /\ globalPend' \in Nat
    BY <1>0, <1>5, <1>a, MonusType DEF LegacyResolveAllowed, ReleaseLegacy, TypeOK
  <2>2. est' \in [IP -> Nat] /\ globalEst' \in Nat
    BY <1>0, <1>5, <1>a DEF LegacyResolveAllowed, CountLegacy, TypeOK
  <2>3. counted' \in [Socket -> BOOLEAN] /\ lost' \subseteq LConn
    BY <1>0, <1>5, <1>a DEF LegacyResolveAllowed, CountLegacy, LegacyTypeOK
  <2>4. /\ lphase' \in [LConn -> {"none", "dns", "dialing", "up", "dying", "gone"}]
        /\ pendT' \in [Socket -> LConn \cup {None}]
    BY <1>0, <1>5, <1>a DEF LegacyResolveAllowed, LegacyTypeOK
  <2>5. LegacyTypeOK' BY <1>0, <1>5, <2>3, <2>4 DEF LegacyResolveAllowed, LegacyTypeOK
  <2> QED BY <1>5, <1>c, <2>1, <2>2, <2>5 DEF LegacyResolveAllowed, CapacityTypeOK
<1>6. ASSUME NEW l \in LConn, LegacyResolveDenied(l) PROVE LTypeOK'
  <2>1. CapacityTypeOK'
    BY <1>0, <1>6, <1>a, MonusType
    DEF LegacyResolveDenied, ReleaseLegacy, TypeOK, CapacityTypeOK
  <2>2. LegacyTypeOK'
    BY <1>0, <1>6, <1>a, RejectType DEF LegacyResolveDenied, ClearPending, LegacyTypeOK
  <2> QED BY <1>6, <1>c, <2>1, <2>2 DEF LegacyResolveDenied
<1>7. ASSUME NEW l \in LConn, LegacyDialSucceeds(l) PROVE LTypeOK'
  <2>1. LegacyTypeOK'
    BY <1>0, <1>7, <1>a DEF LegacyDialSucceeds, ClearPending, LegacyTypeOK
  <2> QED BY <1>7, <1>b, <2>1 DEF LegacyDialSucceeds
<1>8. ASSUME NEW l \in LConn, LegacyDialFails(l) PROVE LTypeOK'
  <2>1. LegacyTypeOK'
    BY <1>0, <1>8, <1>a, RejectType DEF LegacyDialFails, ClearPending, LegacyTypeOK
  <2> QED BY <1>8, <1>b, <2>1 DEF LegacyDialFails
<1>9. ASSUME NEW l \in LConn, LegacyTelnetClosed(l) \/ LegacyTelnetError(l) PROVE LTypeOK'
  <2>1. LegacyTypeOK'
    BY <1>0, <1>9, <1>a, RejectType DEF LegacyTelnetClosed, LegacyTelnetError, LegacyTypeOK
  <2> QED BY <1>9, <1>b, <2>1 DEF LegacyTelnetClosed, LegacyTelnetError
<1>10. ASSUME NEW s \in Socket, LegacyFrameRejected(s) PROVE LTypeOK'
  BY <1>0, <1>10, <1>b, RejectType DEF LegacyFrameRejected, LegacyTypeOK
<1>11. ASSUME NEW s \in Socket, CloseSocket(s), open' \in [Socket -> BOOLEAN],
              timers' \in [Socket -> 0 .. MaxTimers], errored' \subseteq Socket
       PROVE  LTypeOK'
  <2>1. TypeOK'
    BY <1>11, CloseType DEF SessionTypeOK, CapacityTypeOK, TypeOK
  <2> QED BY <1>11, <2>1, CloseType DEF LTypeOK
<1>12. ASSUME NEW s \in Socket, CloseTimer(s) PROVE LTypeOK'
  <2>1. timers' \in [Socket -> 0 .. MaxTimers]
    BY <1>0, <1>12, LegacyAssumption DEF CloseTimer, LegacyTypeOK
  <2> QED BY <1>0, <1>11, <1>12, <2>1 DEF CloseTimer, LegacyTypeOK, TypeOK
<1>13. ASSUME NEW s \in Socket, SocketErrorEvent(s) \/ SocketCloseEvent(s) PROVE LTypeOK'
  BY <1>0, <1>11, <1>13 DEF SocketErrorEvent, SocketCloseEvent, LegacyTypeOK, TypeOK
<1>14. CASE UNCHANGED allVars
  BY <1>0, <1>14, <1>b DEF allVars, legacyVars, LegacyTypeOK
<1> QED
  BY <1>1, <1>2, <1>3, <1>4, <1>5, <1>6, <1>7, <1>8, <1>9, <1>10, <1>12, <1>13, <1>14
  DEF LNext, LegacyStep, SocketStep

-----------------------------------------------------------------------------
(* The counters while the legacy protocol moves.                           *)

(* The reservations and counts of an address, as functions of the fields. *)
ReservedIn(lp, i) == {l \in LConn : lp[l] = "dns" /\ LIPOf(l) = i}
CountedIn(ct, i) == {s \in Socket : ct[s] /\ AddressOf[s] = i}
LostIn(lo, i) == {l \in LConn : l \in lo /\ LIPOf(l) = i}
ChargedIn(ct, lo, i) == Cardinality(CountedIn(ct, i)) + Cardinality(LostIn(lo, i))

(* Those sets are finite. *)
LEMMA InFinite ==
  ASSUME NEW f, NEW i
  PROVE  /\ IsFiniteSet(ReservedIn(f, i)) /\ Cardinality(ReservedIn(f, i)) \in Nat
         /\ IsFiniteSet(CountedIn(f, i)) /\ Cardinality(CountedIn(f, i)) \in Nat
         /\ IsFiniteSet(LostIn(f, i)) /\ Cardinality(LostIn(f, i)) \in Nat
<1>1. /\ ReservedIn(f, i) \subseteq LConn /\ CountedIn(f, i) \subseteq Socket
      /\ LostIn(f, i) \subseteq LConn
  BY DEF ReservedIn, CountedIn, LostIn
<1>2. /\ IsFiniteSet(ReservedIn(f, i)) /\ IsFiniteSet(CountedIn(f, i))
      /\ IsFiniteSet(LostIn(f, i))
  BY <1>1, FS_Subset, LegacyAssumption
<1> QED BY <1>2, FS_CardinalityType

(* A connect that starts to resolve. *)
LEMMA ReservedEnter ==
  ASSUME LTypeOK, NEW l \in LConn, lphase[l] = "none", NEW i,
         lphase' = [lphase EXCEPT ![l] = "dns"]
  PROVE  Cardinality(ReservedIn(lphase', i)) =
           IF i = LIPOf(l) THEN Cardinality(ReservedIn(lphase, i)) + 1
                           ELSE Cardinality(ReservedIn(lphase, i))
<1>0. \A x \in LConn : lphase'[x] = IF x = l THEN "dns" ELSE lphase[x]
  BY DEF LTypeOK
<1>1. CASE i = LIPOf(l)
  <2>1. ReservedIn(lphase', i) = ReservedIn(lphase, i) \cup {l}
    BY <1>0, <1>1 DEF ReservedIn
  <2>2. l \notin ReservedIn(lphase, i) BY DEF ReservedIn
  <2>3. IsFiniteSet(ReservedIn(lphase, i)) BY InFinite, Zenon
  <2>4. Cardinality(ReservedIn(lphase, i) \cup {l}) = Cardinality(ReservedIn(lphase, i)) + 1
    BY <2>2, <2>3, FS_AddElement, Zenon
  <2> QED BY <1>1, <2>1, <2>4, Zenon
<1>2. CASE i # LIPOf(l)
  <2>1. ReservedIn(lphase', i) = ReservedIn(lphase, i) BY <1>0, <1>2 DEF ReservedIn
  <2> QED BY <1>2, <2>1
<1> QED BY <1>1, <1>2

(* A connect whose resolver answered. *)
LEMMA ReservedLeave ==
  ASSUME LTypeOK, NEW l \in LConn, lphase[l] = "dns", NEW i, NEW p, p # "dns",
         lphase' = [lphase EXCEPT ![l] = p]
  PROVE  /\ i = LIPOf(l) => Cardinality(ReservedIn(lphase, i)) > 0
         /\ Cardinality(ReservedIn(lphase', i)) =
              IF i = LIPOf(l) THEN Cardinality(ReservedIn(lphase, i)) - 1
                              ELSE Cardinality(ReservedIn(lphase, i))
<1>0. \A x \in LConn : lphase'[x] = IF x = l THEN p ELSE lphase[x]
  BY DEF LTypeOK
<1>1. CASE i = LIPOf(l)
  <2>1. ReservedIn(lphase', i) = ReservedIn(lphase, i) \ {l}
    BY <1>0, <1>1 DEF ReservedIn
  <2>2. l \in ReservedIn(lphase, i) BY <1>1 DEF ReservedIn
  <2>3. Cardinality(ReservedIn(lphase, i)) > 0
    BY <2>2, InFinite, FS_EmptySet
  <2> QED BY <1>1, <2>1, <2>2, <2>3, InFinite, FS_RemoveElement
<1>2. CASE i # LIPOf(l)
  <2>1. ReservedIn(lphase', i) = ReservedIn(lphase, i) BY <1>0, <1>2 DEF ReservedIn
  <2> QED BY <1>2, <2>1
<1> QED BY <1>1, <1>2

(* legacyCountedIp is set on a socket that had none. *)
LEMMA CountedEnter ==
  ASSUME LTypeOK, NEW s \in Socket, ~counted[s], NEW i, NEW b \in BOOLEAN,
         counted' = [counted EXCEPT ![s] = b]
  PROVE  Cardinality(CountedIn(counted', i)) =
           IF i = AddressOf[s] /\ b THEN Cardinality(CountedIn(counted, i)) + 1
                                    ELSE Cardinality(CountedIn(counted, i))
<1>0. \A x \in Socket : counted'[x] = IF x = s THEN b ELSE counted[x]
  BY DEF LTypeOK
<1>1. CASE i = AddressOf[s] /\ b
  <2>1. CountedIn(counted', i) = CountedIn(counted, i) \cup {s}
    BY <1>0, <1>1 DEF CountedIn
  <2>2. s \notin CountedIn(counted, i) BY DEF CountedIn
  <2>3. IsFiniteSet(CountedIn(counted, i)) BY InFinite, Zenon
  <2>4. Cardinality(CountedIn(counted, i) \cup {s}) = Cardinality(CountedIn(counted, i)) + 1
    BY <2>2, <2>3, FS_AddElement, Zenon
  <2> QED BY <1>1, <2>1, <2>4, Zenon
<1>2. CASE ~(i = AddressOf[s] /\ b)
  <2>1. CountedIn(counted', i) = CountedIn(counted, i) BY <1>0, <1>2 DEF CountedIn
  <2> QED BY <1>2, <2>1
<1> QED BY <1>1, <1>2

(* legacyCountedIp is given back. *)
LEMMA CountedLeave ==
  ASSUME LTypeOK, NEW s \in Socket, NEW i, counted' = [counted EXCEPT ![s] = FALSE]
  PROVE  /\ i = AddressOf[s] /\ counted[s] => Cardinality(CountedIn(counted, i)) > 0
         /\ Cardinality(CountedIn(counted', i)) =
              IF i = AddressOf[s] /\ counted[s] THEN Cardinality(CountedIn(counted, i)) - 1
                                                ELSE Cardinality(CountedIn(counted, i))
<1>0. \A x \in Socket : counted'[x] = IF x = s THEN FALSE ELSE counted[x]
  BY DEF LTypeOK
<1>1. CASE i = AddressOf[s] /\ counted[s]
  <2>1. CountedIn(counted', i) = CountedIn(counted, i) \ {s}
    BY <1>0, <1>1 DEF CountedIn
  <2>2. s \in CountedIn(counted, i) BY <1>1 DEF CountedIn
  <2>3. Cardinality(CountedIn(counted, i)) > 0
    BY <2>2, InFinite, FS_EmptySet
  <2> QED BY <1>1, <2>1, <2>2, <2>3, InFinite, FS_RemoveElement
<1>2. CASE ~(i = AddressOf[s] /\ counted[s])
  <2>1. CountedIn(counted', i) = CountedIn(counted, i) BY <1>0, <1>2 DEF CountedIn
  <2> QED BY <1>2, <2>1
<1> QED BY <1>1, <1>2

(* A connect that dials over a count still set: the count is lost. *)
LEMMA LostEnter ==
  ASSUME LTypeOK, NEW l \in LConn, l \notin lost, NEW i, lost' = lost \cup {l}
  PROVE  Cardinality(LostIn(lost', i)) =
           IF i = LIPOf(l) THEN Cardinality(LostIn(lost, i)) + 1
                           ELSE Cardinality(LostIn(lost, i))
<1>1. CASE i = LIPOf(l)
  <2>1. LostIn(lost', i) = LostIn(lost, i) \cup {l} BY <1>1 DEF LostIn
  <2>2. l \notin LostIn(lost, i) BY DEF LostIn
  <2>3. IsFiniteSet(LostIn(lost, i)) BY InFinite, Zenon
  <2>4. Cardinality(LostIn(lost, i) \cup {l}) = Cardinality(LostIn(lost, i)) + 1
    BY <2>2, <2>3, FS_AddElement, Zenon
  <2> QED BY <1>1, <2>1, <2>4, Zenon
<1>2. CASE i # LIPOf(l)
  <2>1. LostIn(lost', i) = LostIn(lost, i) BY <1>2 DEF LostIn
  <2> QED BY <1>2, <2>1
<1> QED BY <1>1, <1>2

(* The counters move as the sets do. *)
LEMMA SharedMove ==
  ASSUME SharedInv, phase' = phase,
         \A i \in IP :
           /\ pend'[i] + Cardinality(ReservedIn(lphase, i))
                = pend[i] + Cardinality(ReservedIn(lphase', i))
           /\ est'[i] + ChargedIn(counted, lost, i)
                = est[i] + ChargedIn(counted', lost', i)
           /\ est'[i] + pend'[i] <= MaxPerIP,
         est' \in [IP -> Nat], pend' \in [IP -> Nat]
  PROVE  SharedCountersExact' /\ AddressSumsBounded'
<1>1. InFlightSet' = InFlightSet /\ CountedSet' = CountedSet
  BY DEF InFlightSet, CountedSet, InFlight, Counted, IPOf
<1>2. ASSUME NEW i \in IP
      PROVE  /\ pend'[i] = Cardinality(FromIP(InFlightSet, i))
                           + Cardinality(ReservedIn(lphase', i))
             /\ est'[i] = Cardinality(FromIP(CountedSet, i))
                          + ChargedIn(counted', lost', i)
  <2>1. /\ pend[i] = Cardinality(FromIP(InFlightSet, i)) + Cardinality(ReservedIn(lphase, i))
        /\ est[i] = Cardinality(FromIP(CountedSet, i)) + ChargedIn(counted, lost, i)
    BY DEF SharedInv, SharedCountersExact, LegacyReserved, LegacyCharged, LegacyCounted,
       LegacyLost, ReservedIn, ChargedIn, CountedIn, LostIn
  <2>2. FromIP(InFlightSet, i) \in SUBSET Conn /\ FromIP(CountedSet, i) \in SUBSET Conn
    BY DEF FromIP, InFlightSet, CountedSet
  <2>3. /\ Cardinality(FromIP(InFlightSet, i)) \in Nat
        /\ Cardinality(FromIP(CountedSet, i)) \in Nat
    BY <2>2, ConnFinite
  <2>4. /\ Cardinality(ReservedIn(lphase, i)) \in Nat /\ Cardinality(ReservedIn(lphase', i)) \in Nat
        /\ ChargedIn(counted, lost, i) \in Nat /\ ChargedIn(counted', lost', i) \in Nat
    BY InFinite DEF ChargedIn
  <2>5. /\ pend'[i] \in Nat /\ est'[i] \in Nat
        /\ pend'[i] + Cardinality(ReservedIn(lphase, i))
             = pend[i] + Cardinality(ReservedIn(lphase', i))
        /\ est'[i] + ChargedIn(counted, lost, i)
             = est[i] + ChargedIn(counted', lost', i)
    OBVIOUS
  <2> DEFINE a == Cardinality(FromIP(InFlightSet, i))
             b == Cardinality(FromIP(CountedSet, i))
             r == Cardinality(ReservedIn(lphase, i))
             q == ChargedIn(counted, lost, i)
             r1 == Cardinality(ReservedIn(lphase', i))
             q1 == ChargedIn(counted', lost', i)
             n == pend'[i]
             m == est'[i]
  <2>6. /\ a \in Nat /\ b \in Nat /\ r \in Nat /\ q \in Nat /\ r1 \in Nat /\ q1 \in Nat
        /\ n \in Nat /\ m \in Nat
        /\ n + r = (a + r) + r1 /\ m + q = (b + q) + q1
    BY <2>1, <2>3, <2>4, <2>5
  <2> HIDE DEF a, b, r, q, r1, q1, n, m
  <2>7. n = a + r1 /\ m = b + q1 BY <2>6
  <2> QED BY <2>7 DEF a, b, r1, q1, n, m
<1>3. SharedCountersExact'
  BY <1>1, <1>2 DEF SharedCountersExact, FromIP, IPOf, LegacyReserved, LegacyCharged,
     LegacyCounted, LegacyLost, ReservedIn, ChargedIn, CountedIn, LostIn, LIPOf
<1>4. AddressSumsBounded' BY DEF AddressSumsBounded
<1> QED BY <1>3, <1>4

-----------------------------------------------------------------------------
(* The fields closeSocket reads.                                           *)

(* A step about connect l keeps the shape of the others, when it leaves the *)
(* fields of the socket alone or no other connect is in them.              *)
LEMMA ShapeFrame ==
  ASSUME SharedInv, NEW l \in LConn,
         \A m \in LConn \ {l} : /\ lphase'[m] = lphase[m]
                                /\ m \in aborted' <=> m \in aborted,
         \A x \in Socket \ {LSocketOf[l]} :
           pendT'[x] = pendT[x] /\ ts'[x] = ts[x] /\ counted'[x] = counted[x],
         pendT'[LSocketOf[l]] \in {l, None, pendT[LSocketOf[l]]},
         ts'[LSocketOf[l]] \in {l, None, ts[LSocketOf[l]]},
         pendT'[LSocketOf[l]] = None \/ ts'[LSocketOf[l]] = None,
         \/ /\ pendT'[LSocketOf[l]] = pendT[LSocketOf[l]] /\ ts'[LSocketOf[l]] = ts[LSocketOf[l]]
            /\ counted'[LSocketOf[l]] = counted[LSocketOf[l]]
         \/ pendT[LSocketOf[l]] \in {l, None} /\ ts[LSocketOf[l]] \in {l, None},
         ShapeOf(l, lphase'[l], l \in aborted', pendT'[LSocketOf[l]], ts'[LSocketOf[l]],
                 counted'[LSocketOf[l]])
  PROVE  LegacyShape' /\ FieldsOwn'
<1> DEFINE s == LSocketOf[l]
<1>0. s \in Socket /\ l # None /\ LTypeOK BY FieldIsOwn DEF SharedInv
<1>1. ASSUME NEW m \in LConn
      PROVE  ShapeOf(m, lphase'[m], m \in aborted', pendT'[LSocketOf[m]],
                     ts'[LSocketOf[m]], counted'[LSocketOf[m]])
  <2>0. ShapeOf(m, lphase[m], m \in aborted, pendT[LSocketOf[m]],
                ts[LSocketOf[m]], counted[LSocketOf[m]])
    BY DEF SharedInv, LegacyShape
  <2>1. CASE m = l BY <2>1
  <2>2. CASE m # l /\ LSocketOf[m] # s
    <3>1. LSocketOf[m] \in Socket \ {s} BY <2>2, LegacyAssumption
    <3>2. /\ pendT'[LSocketOf[m]] = pendT[LSocketOf[m]] /\ ts'[LSocketOf[m]] = ts[LSocketOf[m]]
          /\ counted'[LSocketOf[m]] = counted[LSocketOf[m]] /\ lphase'[m] = lphase[m]
          /\ m \in aborted' <=> m \in aborted
      BY <2>2, <3>1
    <3> QED BY <2>0, <3>2 DEF ShapeOf
  <2>3. CASE m # l /\ LSocketOf[m] = s
    <3>0. lphase'[m] = lphase[m] /\ (m \in aborted' <=> m \in aborted) /\ m # None
      BY <2>3, LegacyAssumption
    <3>1. CASE /\ pendT'[s] = pendT[s] /\ ts'[s] = ts[s] /\ counted'[s] = counted[s]
      BY <2>0, <2>3, <3>0, <3>1 DEF ShapeOf
    <3>2. CASE pendT[s] \in {l, None} /\ ts[s] \in {l, None}
      <4>1. pendT[s] # m /\ ts[s] # m /\ pendT'[s] # m /\ ts'[s] # m
        BY <2>3, <3>0, <3>2
      <4>2. /\ lphase[m] \notin {"dialing", "up"}
            /\ lphase[m] = "dns" => m \in aborted
            /\ lphase[m] = "none" => m \notin aborted
        BY <2>0, <2>3, <4>1 DEF ShapeOf
      <4> QED BY <2>3, <3>0, <4>1, <4>2 DEF ShapeOf
    <3> QED BY <3>1, <3>2
  <2> QED BY <2>1, <2>2, <2>3
<1>2. LegacyShape' BY <1>1 DEF LegacyShape, ShapeOf, LIPOf
<1>3. FieldsOwn'
  <2> SUFFICES ASSUME NEW x \in Socket
               PROVE  /\ pendT'[x] # None => LSocketOf[pendT'[x]] = x
                      /\ ts'[x] # None => LSocketOf[ts'[x]] = x
                      /\ pendT'[x] = None \/ ts'[x] = None
    BY DEF FieldsOwn
  <2>0. /\ pendT[x] # None => LSocketOf[pendT[x]] = x
        /\ ts[x] # None => LSocketOf[ts[x]] = x
        /\ pendT[x] = None \/ ts[x] = None
    BY DEF SharedInv, FieldsOwn
  <2>1. CASE x = s BY <1>0, <2>0, <2>1
  <2>2. CASE x # s BY <2>0, <2>2
  <2> QED BY <2>1, <2>2
<1> QED BY <1>2, <1>3

(* No connect returns to DNS, and a count is written for a known address. *)
LEMMA LostKept ==
  ASSUME SharedInv,
         \A l \in LConn : lphase'[l] \in {"none", "dns"} => lphase[l] \in {"none", "dns"},
         \A s \in Socket : counted'[s] => counted[s] \/ AddressOf[s] # UnknownIP,
         \A l \in lost' : l \in lost \/ lphase'[l] \notin {"none", "dns"}
  PROVE  LostOwn'
<1>1. lost \subseteq LConn BY DEF SharedInv, LTypeOK
<1> QED BY <1>1 DEF SharedInv, LostOwn

(* A step that leaves phases and fields alone keeps their shape. *)
LEMMA ShapeSame ==
  ASSUME SharedInv, UNCHANGED <<lphase, aborted, pendT, ts, counted, lost>>
  PROVE  LegacyShape' /\ FieldsOwn' /\ LostOwn'
<1>1. LegacyShape' BY DEF SharedInv, LegacyShape, ShapeOf, LIPOf
<1>2. FieldsOwn' BY DEF SharedInv, FieldsOwn
<1>3. LostOwn' BY DEF SharedInv, LostOwn
<1> QED BY <1>1, <1>2, <1>3

(* closeSocket on a socket outside the typed protocol: what it leaves of   *)
(* the connects that socket opened.                                        *)
LEMMA TornDown ==
  ASSUME SharedInv, NEW s \in Socket, GiveBackCount(s), TearDownUpstream(s)
  PROVE  /\ ~counted'[s]
         /\ \A l \in LConn : LSocketOf[l] = s =>
              /\ lphase'[l] \notin {"dialing", "up"}
              /\ lphase'[l] = "dns" => l \in aborted'
         /\ LegacyShape' /\ FieldsOwn' /\ LostOwn'
         /\ \A m \in LConn : lphase'[m] = "dns" <=> lphase[m] = "dns"
<1> DEFINE p == IF ts[s] = None THEN pendT[s] ELSE None
<1>0. /\ LTypeOK
      /\ pendT[s] = None \/ ts[s] = None
      /\ ts[s] \in LConn \cup {None} /\ pendT[s] \in LConn \cup {None}
  BY DEF SharedInv, FieldsOwn, LTypeOK
<1>2. /\ pendT' = IF p = None THEN pendT ELSE [pendT EXCEPT ![s] = None]
      /\ aborted' = IF p # None /\ lphase[p] = "dns" THEN aborted \cup {p} ELSE aborted
      /\ ts' = [ts EXCEPT ![s] = None]
      /\ lphase' = [m \in LConn |->
           IF m = p /\ lphase[m] = "dialing" THEN "gone"
           ELSE IF m = ts[s] /\ lphase[m] = "up" THEN "dying"
           ELSE lphase[m]]
  BY DEF TearDownUpstream
<1>3. counted' = [counted EXCEPT ![s] = FALSE] /\ lost' = lost BY DEF GiveBackCount
<1>4. ~counted'[s] /\ \A x \in Socket \ {s} : counted'[x] = counted[x]
  BY <1>0, <1>3 DEF LTypeOK
<1>5. ts'[s] = None /\ \A x \in Socket \ {s} : ts'[x] = ts[x]
  BY <1>0, <1>2 DEF LTypeOK
<1>6. pendT'[s] = None /\ \A x \in Socket \ {s} : pendT'[x] = pendT[x]
  BY <1>0, <1>2 DEF LTypeOK
<1>7. p \in {pendT[s], None} /\ (ts[s] = None => p = pendT[s]) BY <1>0
<1>8. ASSUME NEW l \in LConn
      PROVE  lphase'[l] = IF l = p /\ lphase[l] = "dialing" THEN "gone"
                          ELSE IF l = ts[s] /\ lphase[l] = "up" THEN "dying"
                          ELSE lphase[l]
  BY <1>2
<1>a. ASSUME NEW l \in LConn
      PROVE  /\ l # None
             /\ ShapeOf(l, lphase[l], l \in aborted, pendT[LSocketOf[l]],
                        ts[LSocketOf[l]], counted[LSocketOf[l]])
  BY LegacyAssumption DEF SharedInv, LegacyShape
<1>b. aborted' \in {aborted, aborted \cup {p}}
      /\ (p # None /\ lphase[p] = "dns" => p \in aborted')
      /\ \A l \in aborted' \ aborted : l # None /\ lphase[l] = "dns"
  BY <1>2
<1> HIDE DEF p
<1>9. ASSUME NEW l \in LConn, LSocketOf[l] # s
      PROVE  /\ lphase'[l] = lphase[l]
             /\ ShapeOf(l, lphase'[l], l \in aborted', pendT'[LSocketOf[l]],
                        ts'[LSocketOf[l]], counted'[LSocketOf[l]])
  <2>1. LSocketOf[l] \in Socket \ {s} /\ pendT[s] # l /\ ts[s] # l
    BY <1>9, FieldIsOwn
  <2>2. p # l BY <1>7, <1>a, <2>1
  <2>3. lphase'[l] = lphase[l] BY <1>8, <2>1, <2>2
  <2>4. l \in aborted' <=> l \in aborted BY <1>b, <2>2
  <2>5. /\ pendT'[LSocketOf[l]] = pendT[LSocketOf[l]] /\ ts'[LSocketOf[l]] = ts[LSocketOf[l]]
        /\ counted'[LSocketOf[l]] = counted[LSocketOf[l]]
    BY <1>4, <1>5, <1>6, <2>1
  <2> QED BY <1>a, <2>3, <2>4, <2>5 DEF ShapeOf
<1>10. ASSUME NEW l \in LConn, LSocketOf[l] = s
       PROVE  /\ lphase'[l] \notin {"dialing", "up"}
              /\ lphase'[l] = "dns" => l \in aborted'
              /\ lphase'[l] \in {"none", "dns"} => lphase[l] = lphase'[l]
              /\ lphase'[l] = "dns" <=> lphase[l] = "dns"
              /\ ShapeOf(l, lphase'[l], l \in aborted', pendT'[s], ts'[s], counted'[s])
  <2>0. l # None /\ ShapeOf(l, lphase[l], l \in aborted, pendT[s], ts[s], counted[s])
    BY <1>10, <1>a
  <2>1. CASE lphase[l] = "none"
    <3>1. lphase'[l] = "none" /\ l \notin aborted BY <1>8, <2>0, <2>1 DEF ShapeOf
    <3>2. l \notin aborted' BY <1>b, <2>1, <3>1
    <3> QED BY <1>5, <1>6, <2>0, <2>1, <3>1, <3>2 DEF ShapeOf
  <2>2. CASE lphase[l] = "dns"
    <3>1. lphase'[l] = "dns" BY <1>8, <2>2
    <3>2. l \in aborted'
      <4>1. CASE l \in aborted BY <1>b, <4>1
      <4>2. CASE l \notin aborted
        <5>1. pendT[s] = l BY <2>0, <2>2, <4>2 DEF ShapeOf
        <5>2. p = l BY <1>0, <1>7, <2>0, <5>1
        <5> QED BY <1>b, <2>0, <2>2, <5>2
      <4> QED BY <4>1, <4>2
    <3> QED BY <1>5, <2>0, <2>2, <3>1, <3>2 DEF ShapeOf
  <2>3. CASE lphase[l] = "dialing"
    <3>1. pendT[s] = l BY <2>0, <2>3 DEF ShapeOf
    <3>2. p = l BY <1>0, <1>7, <2>0, <3>1
    <3>3. lphase'[l] = "gone" BY <1>8, <2>3, <3>2
    <3> QED BY <2>3, <3>3 DEF ShapeOf
  <2>4. CASE lphase[l] = "up"
    <3>1. lphase'[l] = "dying" BY <1>8, <2>0, <2>4 DEF ShapeOf
    <3> QED BY <2>4, <3>1 DEF ShapeOf
  <2>5. CASE lphase[l] \in {"dying", "gone"}
    <3>1. lphase'[l] = lphase[l] BY <1>8, <2>5
    <3> QED BY <2>5, <3>1 DEF ShapeOf
  <2> QED BY <1>0, <2>1, <2>2, <2>3, <2>4, <2>5 DEF LTypeOK
<1>11. LegacyShape'
  <2>1. ASSUME NEW l \in LConn
        PROVE  ShapeOf(l, lphase'[l], l \in aborted', pendT'[LSocketOf[l]],
                       ts'[LSocketOf[l]], counted'[LSocketOf[l]])
    BY <1>9, <1>10
  <2> QED BY <2>1 DEF LegacyShape, ShapeOf, LIPOf
<1>12. FieldsOwn' BY <1>5, <1>6 DEF SharedInv, FieldsOwn
<1>13. LostOwn'
  <2>1. \A l \in LConn : lphase'[l] \in {"none", "dns"} => lphase[l] \in {"none", "dns"}
    BY <1>9, <1>10
  <2>2. \A x \in Socket : counted'[x] => counted[x] BY <1>4
  <2> QED BY <1>3, <2>1, <2>2, LostKept
<1>14. \A m \in LConn : lphase'[m] = "dns" <=> lphase[m] = "dns" BY <1>9, <1>10
<1> QED BY <1>4, <1>10, <1>11, <1>12, <1>13, <1>14

(* closeSocket on any socket keeps the rest of the invariant. *)
LEMMA CloseKeeps ==
  ASSUME SharedInv, NEW s \in Socket, CloseSocket(s), LTypeOK'
  PROVE  SharedInv'
<1>0. LTypeOK /\ TypeOK /\ AddressSumsBounded BY DEF SharedInv, LTypeOK
<1>1. CASE /\ sockSess[s] # None /\ DetachSocket(s)
           /\ UNCHANGED <<lphase, aborted, pendT, ts, counted, lost>>
  <2>1. LegacyShape' /\ FieldsOwn' /\ LostOwn' BY <1>1, ShapeSame
  <2>2. CapacityStep BY <1>1, PhaseSame DEF DetachSocket
  <2>3. SharedCountersExact' /\ AddressSumsBounded'
    BY <1>0, <1>1, <2>2, SharedTyped DEF SharedInv, LTypeOK
  <2> QED BY <2>1, <2>3 DEF SharedInv
<1>2. CASE /\ sockSess[s] = None /\ GiveBackCount(s) /\ TearDownUpstream(s)
           /\ UNCHANGED <<sessVars, mapVars, pend, globalPend, endVars, tracked>>
  <2>1. /\ LegacyShape' /\ FieldsOwn' /\ LostOwn'
        /\ \A m \in LConn : lphase'[m] = "dns" <=> lphase[m] = "dns"
    BY <1>2, TornDown
  <2>2. \A i \in IP : ReservedIn(lphase', i) = ReservedIn(lphase, i)
    BY <2>1 DEF ReservedIn
  <2>3. phase' = phase /\ pend' = pend BY <1>2 DEF sessVars
  <2> DEFINE K(i) == ChargedIn(counted, lost, i)
             K1(i) == ChargedIn(counted', lost', i)
  <2>4. counted' = [counted EXCEPT ![s] = FALSE] /\ lost' = lost
    BY <1>2 DEF GiveBackCount
  <2>5. ASSUME NEW i \in IP
        PROVE  /\ i = AddressOf[s] /\ counted[s] => K(i) > 0
               /\ K1(i) = IF i = AddressOf[s] /\ counted[s] THEN K(i) - 1 ELSE K(i)
               /\ K(i) \in Nat /\ K(i) <= est[i] /\ est[i] \in Nat /\ pend[i] \in Nat
               /\ est[i] + pend[i] <= MaxPerIP
    <3>0. Cardinality(CountedIn(counted, i)) \in Nat /\ Cardinality(LostIn(lost, i)) \in Nat
      BY InFinite
    <3>1. /\ i = AddressOf[s] /\ counted[s] => K(i) > 0
          /\ K1(i) = IF i = AddressOf[s] /\ counted[s] THEN K(i) - 1 ELSE K(i)
      <4> DEFINE C == Cardinality(CountedIn(counted, i))
                 C1 == Cardinality(CountedIn(counted', i))
                 L == Cardinality(LostIn(lost, i))
      <4>1. /\ i = AddressOf[s] /\ counted[s] => C > 0
            /\ C1 = IF i = AddressOf[s] /\ counted[s] THEN C - 1 ELSE C
        BY <1>0, <2>4, CountedLeave
      <4>2. K(i) = C + L /\ K1(i) = C1 + L /\ C \in Nat /\ L \in Nat
        BY <2>4, <3>0 DEF ChargedIn
      <4> HIDE DEF C, C1, L, K, K1
      <4> QED BY <4>1, <4>2
    <3>2. K(i) \in Nat BY <3>0 DEF ChargedIn
    <3>3. est[i] = Cardinality(FromIP(CountedSet, i)) + K(i)
      BY DEF SharedInv, SharedCountersExact, LegacyCharged, LegacyCounted, LegacyLost,
         ChargedIn, CountedIn, LostIn
    <3>4. FromIP(CountedSet, i) \in SUBSET Conn BY DEF FromIP, CountedSet
    <3>5. Cardinality(FromIP(CountedSet, i)) \in Nat BY <3>4, ConnFinite
    <3>6. est[i] \in Nat /\ pend[i] \in Nat /\ est[i] + pend[i] <= MaxPerIP
      BY <1>0 DEF TypeOK, AddressSumsBounded
    <3> HIDE DEF K, K1
    <3>7. K(i) <= est[i] BY <3>2, <3>3, <3>5
    <3> QED BY <3>1, <3>2, <3>6, <3>7
  <2>6. ASSUME NEW i \in IP
        PROVE  est'[i] = IF i = AddressOf[s] /\ counted[s] THEN Monus1(est[i]) ELSE est[i]
    BY <1>0, <1>2 DEF GiveBackCount, TypeOK
  <2> HIDE DEF K, K1
  <2>7. ASSUME NEW i \in IP
        PROVE  est'[i] + K(i) = est[i] + K1(i) /\ est'[i] + pend'[i] <= MaxPerIP
    <3>1. est'[i] = IF i = AddressOf[s] /\ counted[s] THEN est[i] - 1 ELSE est[i]
      BY <2>5, <2>6 DEF Monus1
    <3> QED BY <2>3, <2>5, <3>1, ConstantsAssumption
  <2>8. est' \in [IP -> Nat] /\ pend' \in [IP -> Nat] BY DEF LTypeOK, TypeOK
  <2>9. SharedCountersExact' /\ AddressSumsBounded'
    BY <2>2, <2>3, <2>7, <2>8, SharedMove DEF K, K1
  <2> QED BY <2>1, <2>9 DEF SharedInv
<1> QED BY <1>1, <1>2 DEF CloseSocket

(* Every step keeps the counters shared and exact. *)
LEMMA SharedStep ==
  ASSUME SharedInv, [LNext]_allVars PROVE SharedInv'
<1>0. LTypeOK /\ TypeOK /\ AddressSumsBounded BY DEF SharedInv, LTypeOK
<1>1. LTypeOK' BY <1>0, LegacyTypeStep
<1>2. TypeOK' /\ est' \in [IP -> Nat] /\ pend' \in [IP -> Nat] BY <1>1 DEF LTypeOK, TypeOK
<1> DEFINE R0(i) == Cardinality(ReservedIn(lphase, i))
           R1(i) == Cardinality(ReservedIn(lphase', i))
           K0(i) == ChargedIn(counted, lost, i)
           K1(i) == ChargedIn(counted', lost', i)
<1>3. ASSUME NEW i \in IP
      PROVE  /\ R0(i) \in Nat /\ R1(i) \in Nat /\ K0(i) \in Nat /\ K1(i) \in Nat
             /\ est[i] \in Nat /\ pend[i] \in Nat /\ est'[i] \in Nat /\ pend'[i] \in Nat
             /\ est[i] + pend[i] <= MaxPerIP
  BY <1>0, <1>2, InFinite DEF TypeOK, AddressSumsBounded, ChargedIn
<1>4. ASSUME NEW i \in IP PROVE R0(i) <= pend[i]
  <2>1. pend[i] = Cardinality(FromIP(InFlightSet, i)) + R0(i)
    BY DEF SharedInv, SharedCountersExact, LegacyReserved, ReservedIn
  <2>2. FromIP(InFlightSet, i) \in SUBSET Conn BY DEF FromIP, InFlightSet
  <2>3. Cardinality(FromIP(InFlightSet, i)) \in Nat BY <2>2, ConnFinite
  <2> HIDE DEF R0, R1, K0, K1
  <2> QED BY <1>3, <2>1, <2>3
<1>a. ASSUME phase' = phase, LegacyShape' /\ FieldsOwn' /\ LostOwn',
             \A i \in IP : /\ pend'[i] + R0(i) = pend[i] + R1(i)
                           /\ est'[i] + K0(i) = est[i] + K1(i)
                           /\ est'[i] + pend'[i] <= MaxPerIP
      PROVE  SharedInv'
  <2>1. SharedCountersExact' /\ AddressSumsBounded' BY <1>2, <1>a, SharedMove
  <2> QED BY <1>1, <1>a, <2>1 DEF SharedInv
<1>b. ASSUME UNCHANGED <<phase, est, pend, counted, lost>>,
             LegacyShape' /\ FieldsOwn' /\ LostOwn',
             \A m \in LConn : lphase'[m] = "dns" <=> lphase[m] = "dns"
      PROVE  SharedInv'
  <2>1. \A i \in IP : R1(i) = R0(i) /\ K1(i) = K0(i)
    BY <1>b DEF ReservedIn, ChargedIn, CountedIn, LostIn
  <2> HIDE DEF R0, R1, K0, K1
  <2>2. \A i \in IP : /\ pend'[i] + R0(i) = pend[i] + R1(i)
                      /\ est'[i] + K0(i) = est[i] + K1(i)
                      /\ est'[i] + pend'[i] <= MaxPerIP
    BY <1>3, <1>b, <2>1
  <2> QED BY <1>a, <1>b, <2>2
<1> HIDE DEF R0, R1, K0, K1
<1>c. ASSUME NEW l \in LConn
      PROVE  /\ LSocketOf[l] \in Socket /\ LIPOf(l) \in IP /\ l # None
             /\ LIPOf(l) = AddressOf[LSocketOf[l]]
             /\ pendT[LSocketOf[l]] = None \/ ts[LSocketOf[l]] = None
             /\ ShapeOf(l, lphase[l], l \in aborted, pendT[LSocketOf[l]],
                        ts[LSocketOf[l]], counted[LSocketOf[l]])
  BY FieldIsOwn DEF SharedInv, LegacyShape, FieldsOwn, LIPOf
<1>d. ASSUME NEW l \in LConn, CountLegacy(l), lphase[l] \in {"none", "dns"}, NEW i \in IP
      PROVE  /\ K1(i) = IF i = LIPOf(l) /\ LIPOf(l) # UnknownIP THEN K0(i) + 1 ELSE K0(i)
             /\ est'[i] = IF i = LIPOf(l) /\ LIPOf(l) # UnknownIP THEN est[i] + 1 ELSE est[i]
  <2> DEFINE s == LSocketOf[l]
             i0 == LIPOf(l)
             C0 == Cardinality(CountedIn(counted, i))
             C1 == Cardinality(CountedIn(counted', i))
             L0 == Cardinality(LostIn(lost, i))
             L1 == Cardinality(LostIn(lost', i))
  <2>1. /\ counted' = [counted EXCEPT ![s] = (i0 # UnknownIP)]
        /\ lost' = IF counted[s] THEN lost \cup {l} ELSE lost
    BY <1>d DEF CountLegacy
  <2>2. /\ C0 \in Nat /\ C1 \in Nat /\ L0 \in Nat /\ L1 \in Nat
        /\ K0(i) = C0 + L0 /\ K1(i) = C1 + L1
    BY InFinite DEF K0, K1, ChargedIn
  <2>3. l \notin lost /\ (counted[s] => i0 # UnknownIP)
    BY <1>c, <1>d DEF SharedInv, LostOwn
  <2>4. K1(i) = IF i = i0 /\ i0 # UnknownIP THEN K0(i) + 1 ELSE K0(i)
    <3>1. CASE ~counted[s]
      <4>1. lost' = lost BY <2>1, <3>1
      <4>2. L1 = L0 BY <4>1
      <4>3. s \in Socket /\ i0 = AddressOf[s] /\ (i0 # UnknownIP) \in BOOLEAN BY <1>c
      <4>4. C1 = IF i = i0 /\ i0 # UnknownIP THEN C0 + 1 ELSE C0
        <5>1. CASE i0 # UnknownIP
          <6>1. counted' = [counted EXCEPT ![s] = TRUE] BY <2>1, <5>1
          <6>2. TRUE \in BOOLEAN OBVIOUS
          <6> HIDE DEF s, i0
          <6>3. Cardinality(CountedIn(counted', i)) =
                  IF i = AddressOf[s] /\ TRUE THEN Cardinality(CountedIn(counted, i)) + 1
                                              ELSE Cardinality(CountedIn(counted, i))
            BY <1>0, <3>1, <4>3, <6>1, <6>2, CountedEnter
          <6> QED BY <4>3, <5>1, <6>3
        <5>2. CASE i0 = UnknownIP
          <6>1. counted' = [counted EXCEPT ![s] = FALSE] BY <2>1, <5>2
          <6> QED BY <1>0, <3>1, <4>3, <5>2, <6>1, CountedEnter
        <5> QED BY <5>1, <5>2
      <4> HIDE DEF C0, C1, L0, L1
      <4> QED BY <2>2, <4>2, <4>4
    <3>2. CASE counted[s]
      <4>1. counted' = [counted EXCEPT ![s] = TRUE] /\ i0 # UnknownIP
        BY <2>1, <2>3, <3>2
      <4>2. \A x \in Socket : counted'[x] <=> counted[x]
        BY <1>0, <3>2, <4>1 DEF LTypeOK
      <4>3. C1 = C0 BY <4>2 DEF CountedIn
      <4>4. lost' = lost \cup {l} BY <2>1, <3>2
      <4>5. L1 = IF i = i0 THEN L0 + 1 ELSE L0 BY <1>0, <2>3, <4>4, LostEnter
      <4> HIDE DEF C0, C1, L0, L1, i0
      <4> QED BY <2>2, <4>1, <4>3, <4>5
    <3> QED BY <3>1, <3>2
  <2>5. est'[i] = IF i = i0 /\ i0 # UnknownIP THEN est[i] + 1 ELSE est[i]
    BY <1>0, <1>c, <1>d DEF CountLegacy, TypeOK
  <2> QED BY <2>4, <2>5
<1>e. ASSUME NEW l \in LConn, CountLegacy(l), lphase' = [lphase EXCEPT ![l] = "dialing"]
      PROVE  LostOwn'
  <2>1. \A m \in LConn : lphase'[m] = IF m = l THEN "dialing" ELSE lphase[m]
    BY <1>0, <1>e DEF LTypeOK
  <2>2. \A x \in Socket : counted'[x] => counted[x] \/ AddressOf[x] # UnknownIP
    BY <1>0, <1>c, <1>e DEF CountLegacy, LTypeOK
  <2>3. lost' \subseteq lost \cup {l} BY <1>e DEF CountLegacy
  <2> QED BY <2>1, <2>2, <2>3, LostKept
<1>f. ASSUME NEW l \in LConn, NEW p, lphase' = [lphase EXCEPT ![l] = p],
             p \in {"none", "dns"} => lphase[l] \in {"none", "dns"},
             UNCHANGED <<counted, lost>>
      PROVE  LostOwn'
  <2>1. \A m \in LConn : lphase'[m] = IF m = l THEN p ELSE lphase[m]
    BY <1>0, <1>f DEF LTypeOK
  <2> QED BY <1>f, <2>1, LostKept
<1>5. CASE TypedStep
  <2>1. Next /\ UNCHANGED legacyVars BY <1>5, TypedIsNext
  <2>2. CapacityStep BY <1>0, <2>1, StepKinds
  <2>3. SharedCountersExact' /\ AddressSumsBounded'
    BY <1>0, <1>2, <2>1, <2>2, SharedTyped DEF SharedInv, legacyVars
  <2>4. LegacyShape' /\ FieldsOwn' /\ LostOwn' BY <2>1, ShapeSame DEF legacyVars
  <2> QED BY <1>1, <2>3, <2>4 DEF SharedInv
<1>6. ASSUME UNCHANGED <<vars, lphase, aborted, pendT, ts, counted, lost>> PROVE SharedInv'
  <2>1. LegacyShape' /\ FieldsOwn' /\ LostOwn' BY <1>6, ShapeSame
  <2> QED BY <1>b, <1>6, <2>1 DEF vars, sessVars, capVars
<1>7. ASSUME NEW l \in LConn, LegacyConnectRejected(l) PROVE SharedInv'
  BY <1>6, <1>7 DEF LegacyConnectRejected
<1>8. ASSUME NEW l \in LConn, LegacyConnectDial(l) PROVE SharedInv'
  <2> DEFINE s == LSocketOf[l]
             i0 == LIPOf(l)
  <2>0. /\ lphase[l] = "none" /\ ~LegacyRefused(l) /\ CountLegacy(l)
        /\ lphase' = [lphase EXCEPT ![l] = "dialing"] /\ pendT' = [pendT EXCEPT ![s] = l]
        /\ UNCHANGED <<phase, pend, aborted, ts>>
        /\ ts[s] = None /\ pendT[s] = None
    BY <1>8 DEF LegacyConnectDial, MayConnectLegacy, Busy, sessVars
  <2>1. counted' = [counted EXCEPT ![s] = (i0 # UnknownIP)]
    BY <2>0 DEF CountLegacy
  <2>2. LegacyShape' /\ FieldsOwn'
    <3>1. \A m \in LConn \ {l} : lphase'[m] = lphase[m] /\ (m \in aborted' <=> m \in aborted)
      BY <1>0, <2>0 DEF LTypeOK
    <3>2. \A x \in Socket \ {s} :
            pendT'[x] = pendT[x] /\ ts'[x] = ts[x] /\ counted'[x] = counted[x]
      BY <1>0, <2>0, <2>1 DEF LTypeOK
    <3>3. /\ lphase'[l] = "dialing" /\ pendT'[s] = l /\ ts'[s] = None
          /\ counted'[s] = (i0 # UnknownIP) /\ l \notin aborted'
      BY <1>0, <1>c, <2>0, <2>1 DEF LTypeOK, ShapeOf
    <3>4. ShapeOf(l, lphase'[l], l \in aborted', pendT'[s], ts'[s], counted'[s])
      BY <1>c, <3>3 DEF ShapeOf
    <3> QED BY <2>0, <3>1, <3>2, <3>3, <3>4, ShapeFrame
  <2>3. ASSUME NEW i \in IP PROVE R1(i) = R0(i)
    <3>1. \A m \in LConn : lphase'[m] = "dns" <=> lphase[m] = "dns"
      BY <1>0, <2>0 DEF LTypeOK
    <3> QED BY <3>1 DEF R0, R1, ReservedIn
  <2>4. ASSUME NEW i \in IP
        PROVE  /\ K1(i) = IF i = i0 /\ i0 # UnknownIP THEN K0(i) + 1 ELSE K0(i)
               /\ est'[i] = IF i = i0 /\ i0 # UnknownIP THEN est[i] + 1 ELSE est[i]
    BY <1>d, <2>0, <2>1
  <2>6. est[i0] + pend[i0] < MaxPerIP
    BY <1>3, <1>c, <2>0, ConstantsAssumption DEF LegacyRefused
  <2>7. \A i \in IP : /\ pend'[i] + R0(i) = pend[i] + R1(i)
                      /\ est'[i] + K0(i) = est[i] + K1(i)
                      /\ est'[i] + pend'[i] <= MaxPerIP
    <3> TAKE i \in IP
    <3> HIDE DEF i0
    <3>0. pend'[i] = pend[i] BY <2>0
    <3>1. CASE i = i0 /\ i0 # UnknownIP
      <4>1. est'[i] = est[i] + 1 /\ K1(i) = K0(i) + 1 BY <2>4, <3>1
      <4>2. est[i] + pend[i] < MaxPerIP BY <2>6, <3>1
      <4> QED BY <1>3, <2>3, <3>0, <4>1, <4>2, ConstantsAssumption
    <3>2. CASE ~(i = i0 /\ i0 # UnknownIP)
      <4>1. est'[i] = est[i] /\ K1(i) = K0(i) BY <2>4, <3>2
      <4> QED BY <1>3, <2>3, <3>0, <4>1, ConstantsAssumption
    <3> QED BY <3>1, <3>2
  <2>9. LostOwn' BY <1>e, <2>0
  <2> QED BY <1>a, <2>0, <2>9, <2>2, <2>7
<1>9. ASSUME NEW l \in LConn, LegacyConnectResolve(l) PROVE SharedInv'
  <2> DEFINE s == LSocketOf[l]
             i0 == LIPOf(l)
  <2>0. /\ lphase[l] = "none" /\ ~LegacyRefused(l) /\ pend' = [pend EXCEPT ![i0] = @ + 1]
        /\ lphase' = [lphase EXCEPT ![l] = "dns"] /\ pendT' = [pendT EXCEPT ![s] = l]
        /\ UNCHANGED <<phase, est, aborted, ts, counted, lost>>
        /\ ts[s] = None /\ pendT[s] = None
    BY <1>9 DEF LegacyConnectResolve, MayConnectLegacy, Busy, sessVars
  <2>2. LegacyShape' /\ FieldsOwn'
    <3>1. \A m \in LConn \ {l} : lphase'[m] = lphase[m] /\ (m \in aborted' <=> m \in aborted)
      BY <1>0, <2>0 DEF LTypeOK
    <3>2. \A x \in Socket \ {s} :
            pendT'[x] = pendT[x] /\ ts'[x] = ts[x] /\ counted'[x] = counted[x]
      BY <1>0, <2>0 DEF LTypeOK
    <3>3. lphase'[l] = "dns" /\ pendT'[s] = l /\ ts'[s] = None
      BY <1>0, <1>c, <2>0 DEF LTypeOK, ShapeOf
    <3>4. ShapeOf(l, lphase'[l], l \in aborted', pendT'[s], ts'[s], counted'[s])
      BY <1>c, <3>3 DEF ShapeOf
    <3> QED BY <2>0, <3>1, <3>2, <3>3, <3>4, ShapeFrame
  <2>3. ASSUME NEW i \in IP PROVE R1(i) = IF i = i0 THEN R0(i) + 1 ELSE R0(i)
    BY <1>0, <2>0, ReservedEnter DEF R0, R1
  <2>4. ASSUME NEW i \in IP PROVE K1(i) = K0(i)
    BY <2>0 DEF K0, K1
  <2>5. ASSUME NEW i \in IP PROVE pend'[i] = IF i = i0 THEN pend[i] + 1 ELSE pend[i]
    BY <1>0, <1>c, <2>0 DEF TypeOK
  <2>6. est[i0] + pend[i0] < MaxPerIP
    BY <1>3, <1>c, <2>0, ConstantsAssumption DEF LegacyRefused
  <2>7. \A i \in IP : /\ pend'[i] + R0(i) = pend[i] + R1(i)
                      /\ est'[i] + K0(i) = est[i] + K1(i)
                      /\ est'[i] + pend'[i] <= MaxPerIP
    <3> TAKE i \in IP
    <3> HIDE DEF i0
    <3> QED BY <1>3, <2>0, <2>3, <2>4, <2>5, <2>6, ConstantsAssumption
  <2>9. LostOwn' BY <1>f, <2>0
  <2> QED BY <1>a, <2>0, <2>9, <2>2, <2>7
<1>10. ASSUME NEW l \in LConn, lphase[l] = "dns", NEW p, p # "dns", ReleaseLegacy(l),
              lphase' = [lphase EXCEPT ![l] = p], NEW i \in IP
       PROVE  /\ R1(i) = IF i = LIPOf(l) THEN R0(i) - 1 ELSE R0(i)
              /\ pend'[i] = IF i = LIPOf(l) THEN pend[i] - 1 ELSE pend[i]
              /\ i = LIPOf(l) => R0(i) > 0
  <2>1. /\ i = LIPOf(l) => R0(i) > 0
        /\ R1(i) = IF i = LIPOf(l) THEN R0(i) - 1 ELSE R0(i)
    BY <1>0, <1>10, ReservedLeave DEF R0, R1
  <2>2. pend'[i] = IF i = LIPOf(l) THEN Monus1(pend[i]) ELSE pend[i]
    BY <1>0, <1>10, <1>c DEF ReleaseLegacy, TypeOK
  <2>3. i = LIPOf(l) => pend[i] > 0 BY <1>3, <1>4, <2>1
  <2> QED BY <1>3, <2>1, <2>2, <2>3 DEF Monus1
<1>11. ASSUME NEW l \in LConn, LegacyResolveAllowed(l), l \in aborted PROVE SharedInv'
  <2> DEFINE s == LSocketOf[l]
  <2>0. /\ lphase[l] = "dns" /\ ReleaseLegacy(l) /\ lphase' = [lphase EXCEPT ![l] = "gone"]
        /\ UNCHANGED <<phase, est, aborted, ts, counted, lost, pendT>>
    BY <1>11 DEF LegacyResolveAllowed, sessVars
  <2>1. LegacyShape' /\ FieldsOwn'
    <3>1. \A m \in LConn \ {l} : lphase'[m] = lphase[m] /\ (m \in aborted' <=> m \in aborted)
      BY <1>0, <2>0 DEF LTypeOK
    <3>2. lphase'[l] = "gone" BY <1>0, <2>0 DEF LTypeOK
    <3>3. ShapeOf(l, lphase'[l], l \in aborted', pendT'[s], ts'[s], counted'[s])
      BY <3>2 DEF ShapeOf
    <3> QED BY <1>c, <2>0, <3>1, <3>3, ShapeFrame
  <2>2. ASSUME NEW i \in IP PROVE K1(i) = K0(i) BY <2>0 DEF K0, K1
  <2>3. ASSUME NEW i \in IP
        PROVE  /\ R1(i) = IF i = LIPOf(l) THEN R0(i) - 1 ELSE R0(i)
               /\ pend'[i] = IF i = LIPOf(l) THEN pend[i] - 1 ELSE pend[i]
    BY <1>10, <2>0
  <2>4. \A i \in IP : /\ pend'[i] + R0(i) = pend[i] + R1(i)
                      /\ est'[i] + K0(i) = est[i] + K1(i)
                      /\ est'[i] + pend'[i] <= MaxPerIP
    <3> TAKE i \in IP
    <3> QED BY <1>3, <2>0, <2>2, <2>3, ConstantsAssumption
  <2>9. LostOwn' BY <1>f, <2>0
  <2> QED BY <1>a, <2>0, <2>9, <2>1, <2>4
<1>12. ASSUME NEW l \in LConn, LegacyResolveAllowed(l), l \notin aborted PROVE SharedInv'
  <2> DEFINE s == LSocketOf[l]
             i0 == LIPOf(l)
  <2>0. /\ lphase[l] = "dns" /\ ReleaseLegacy(l) /\ lphase' = [lphase EXCEPT ![l] = "dialing"]
        /\ CountLegacy(l) /\ pendT' = [pendT EXCEPT ![s] = IF @ = None THEN l ELSE @]
        /\ UNCHANGED <<phase, aborted, ts>>
    BY <1>12 DEF LegacyResolveAllowed, sessVars
  <2>1. /\ counted' = [counted EXCEPT ![s] = (i0 # UnknownIP)]
        /\ pendT[s] = l /\ ts[s] = None
    BY <1>c, <1>12, <2>0 DEF CountLegacy, ShapeOf
  <2>2. LegacyShape' /\ FieldsOwn'
    <3>1. \A m \in LConn \ {l} : lphase'[m] = lphase[m] /\ (m \in aborted' <=> m \in aborted)
      BY <1>0, <2>0 DEF LTypeOK
    <3>2. \A x \in Socket \ {s} :
            pendT'[x] = pendT[x] /\ ts'[x] = ts[x] /\ counted'[x] = counted[x]
      BY <1>0, <2>0, <2>1 DEF LTypeOK
    <3>3. /\ lphase'[l] = "dialing" /\ pendT'[s] = l /\ ts'[s] = ts[s]
          /\ counted'[s] = (i0 # UnknownIP)
      BY <1>0, <1>c, <2>0, <2>1 DEF LTypeOK
    <3>4. ShapeOf(l, lphase'[l], l \in aborted', pendT'[s], ts'[s], counted'[s])
      BY <1>c, <1>12, <2>0, <2>1, <3>3 DEF ShapeOf
    <3> QED BY <1>c, <2>1, <3>1, <3>2, <3>3, <3>4, ShapeFrame
  <2>3. ASSUME NEW i \in IP
        PROVE  /\ R1(i) = IF i = i0 THEN R0(i) - 1 ELSE R0(i)
               /\ pend'[i] = IF i = i0 THEN pend[i] - 1 ELSE pend[i]
    BY <1>10, <2>0
  <2>4. ASSUME NEW i \in IP
        PROVE  /\ K1(i) = IF i = i0 /\ i0 # UnknownIP THEN K0(i) + 1 ELSE K0(i)
               /\ est'[i] = IF i = i0 /\ i0 # UnknownIP THEN est[i] + 1 ELSE est[i]
    BY <1>d, <2>0, <2>1
  <2> HIDE DEF i0
  <2>5. \A i \in IP : /\ pend'[i] + R0(i) = pend[i] + R1(i)
                      /\ est'[i] + K0(i) = est[i] + K1(i)
                      /\ est'[i] + pend'[i] <= MaxPerIP
    <3> TAKE i \in IP
    <3>1. CASE i = i0
      <4>1. pend'[i] = pend[i] - 1 /\ R1(i) = R0(i) - 1 BY <2>3, <3>1
      <4>2. \/ est'[i] = est[i] + 1 /\ K1(i) = K0(i) + 1
            \/ est'[i] = est[i] /\ K1(i) = K0(i)
        BY <2>4
      <4>3. /\ R0(i) \in Nat /\ K0(i) \in Nat /\ est[i] \in Nat /\ pend[i] \in Nat
            /\ est[i] + pend[i] <= MaxPerIP
        BY <1>3
      <4>4. CASE est'[i] = est[i] + 1 /\ K1(i) = K0(i) + 1
        <5>1. pend'[i] + R0(i) = pend[i] + R1(i) BY <4>1, <4>3
        <5>2. est'[i] + K0(i) = est[i] + K1(i) BY <4>3, <4>4
        <5>3. est'[i] + pend'[i] = est[i] + pend[i] BY <4>1, <4>3, <4>4
        <5> QED BY <4>3, <5>1, <5>2, <5>3
      <4>5. CASE est'[i] = est[i] /\ K1(i) = K0(i)
        <5>1. pend'[i] + R0(i) = pend[i] + R1(i) BY <4>1, <4>3
        <5>2. est'[i] + K0(i) = est[i] + K1(i) BY <4>5
        <5>3. est'[i] + pend'[i] = (est[i] + pend[i]) - 1 BY <4>1, <4>3, <4>5
        <5>4. est'[i] + pend'[i] <= MaxPerIP BY <4>3, <5>3, ConstantsAssumption
        <5> QED BY <5>1, <5>2, <5>4
      <4> QED BY <4>2, <4>4, <4>5
    <3>2. CASE i # i0
      <4>1. pend'[i] = pend[i] /\ R1(i) = R0(i) /\ est'[i] = est[i] /\ K1(i) = K0(i)
        BY <2>3, <2>4, <3>2
      <4> QED BY <1>3, <4>1, ConstantsAssumption
    <3> QED BY <3>1, <3>2
  <2>9. LostOwn' BY <1>e, <2>0
  <2> QED BY <1>a, <2>0, <2>9, <2>2, <2>5
<1>13. ASSUME NEW l \in LConn, LegacyResolveDenied(l) PROVE SharedInv'
  <2> DEFINE s == LSocketOf[l]
  <2>0. /\ lphase[l] = "dns" /\ ReleaseLegacy(l) /\ lphase' = [lphase EXCEPT ![l] = "gone"]
        /\ pendT' = [pendT EXCEPT ![s] = IF @ = l THEN None ELSE @]
        /\ UNCHANGED <<phase, est, aborted, ts, counted, lost>>
    BY <1>13 DEF LegacyResolveDenied, ClearPending, sessVars
  <2>1. LegacyShape' /\ FieldsOwn'
    <3>1. \A m \in LConn \ {l} : lphase'[m] = lphase[m] /\ (m \in aborted' <=> m \in aborted)
      BY <1>0, <2>0 DEF LTypeOK
    <3>2. /\ lphase'[l] = "gone" /\ pendT'[s] \in {None, pendT[s]} /\ pendT'[s] # l
          /\ pendT[s] # l => pendT'[s] = pendT[s]
      BY <1>0, <1>c, <2>0 DEF LTypeOK
    <3>3. ShapeOf(l, lphase'[l], l \in aborted', pendT'[s], ts'[s], counted'[s])
      BY <3>2 DEF ShapeOf
    <3>4. \A x \in Socket \ {s} : pendT'[x] = pendT[x] BY <1>0, <2>0 DEF LTypeOK
    <3> QED BY <1>c, <2>0, <3>1, <3>2, <3>3, <3>4, ShapeFrame
  <2>2. ASSUME NEW i \in IP PROVE K1(i) = K0(i) BY <2>0 DEF K0, K1
  <2>3. ASSUME NEW i \in IP
        PROVE  /\ R1(i) = IF i = LIPOf(l) THEN R0(i) - 1 ELSE R0(i)
               /\ pend'[i] = IF i = LIPOf(l) THEN pend[i] - 1 ELSE pend[i]
    BY <1>10, <2>0
  <2>4. \A i \in IP : /\ pend'[i] + R0(i) = pend[i] + R1(i)
                      /\ est'[i] + K0(i) = est[i] + K1(i)
                      /\ est'[i] + pend'[i] <= MaxPerIP
    <3> TAKE i \in IP
    <3> QED BY <1>3, <2>0, <2>2, <2>3, ConstantsAssumption
  <2>9. LostOwn' BY <1>f, <2>0
  <2> QED BY <1>a, <2>0, <2>9, <2>1, <2>4
<1>14. ASSUME NEW l \in LConn, NEW p \in {"up", "dying", "gone"},
              lphase' = [lphase EXCEPT ![l] = p], lphase[l] \in {"dialing", "up", "dying"},
              p = "up" => /\ lphase[l] = "dialing" /\ ts' = [ts EXCEPT ![LSocketOf[l]] = l]
                          /\ pendT'[LSocketOf[l]] # l,
              p # "up" => ts' = ts,
              \/ pendT' = pendT
              \/ pendT' = [pendT EXCEPT ![LSocketOf[l]] = IF @ = l THEN None ELSE @],
              UNCHANGED <<vars, aborted, counted, lost>>
       PROVE  SharedInv'
  <2> DEFINE s == LSocketOf[l]
  <2>1. \A m \in LConn \ {l} : lphase'[m] = lphase[m] /\ (m \in aborted' <=> m \in aborted)
    BY <1>0, <1>14 DEF LTypeOK
  <2>2. lphase'[l] = p BY <1>0, <1>14 DEF LTypeOK
  <2>3. /\ \A x \in Socket \ {s} : pendT'[x] = pendT[x] /\ ts'[x] = ts[x]
        /\ pendT'[s] \in {None, pendT[s]} /\ (pendT[s] # l => pendT'[s] = pendT[s])
        /\ IF p = "up" THEN ts'[s] = l ELSE ts'[s] = ts[s]
    BY <1>0, <1>c, <1>14 DEF LTypeOK
  <2>4. ShapeOf(l, lphase'[l], l \in aborted', pendT'[s], ts'[s], counted'[s])
    BY <1>c, <1>14, <2>2, <2>3 DEF ShapeOf
  <2>5. LegacyShape' /\ FieldsOwn'
    <3>1. \/ pendT'[s] = pendT[s] /\ ts'[s] = ts[s]
          \/ pendT[s] \in {l, None} /\ ts[s] \in {l, None}
      BY <1>c, <1>14, <2>3 DEF ShapeOf
    <3>2. pendT'[s] = None \/ ts'[s] = None BY <1>c, <1>14, <2>3 DEF ShapeOf
    <3> QED BY <1>14, <2>1, <2>3, <2>4, <3>1, <3>2, ShapeFrame
  <2>8. LostOwn' BY <1>f, <1>14
  <2>6. \A m \in LConn : lphase'[m] = "dns" <=> lphase[m] = "dns" BY <1>14, <2>1, <2>2
  <2>7. UNCHANGED <<phase, est, pend, counted, lost>> BY <1>14 DEF vars, sessVars, capVars
  <2> QED BY <1>b, <2>5, <2>6, <2>7, <2>8
<1>15. ASSUME NEW l \in LConn, LegacyDialSucceeds(l) PROVE SharedInv'
  <2>1. pendT' = [pendT EXCEPT ![LSocketOf[l]] = IF @ = l THEN None ELSE @]
    BY <1>15 DEF LegacyDialSucceeds, ClearPending
  <2>2. pendT'[LSocketOf[l]] # l BY <1>0, <1>c, <2>1 DEF LTypeOK
  <2> QED BY <1>14, <1>15, <2>1, <2>2 DEF LegacyDialSucceeds
<1>16. ASSUME NEW l \in LConn, LegacyDialFails(l) PROVE SharedInv'
  BY <1>14, <1>16 DEF LegacyDialFails, ClearPending
<1>17. ASSUME NEW l \in LConn, LegacyTelnetClosed(l) PROVE SharedInv'
  BY <1>14, <1>17 DEF LegacyTelnetClosed
<1>18. ASSUME NEW l \in LConn, LegacyTelnetError(l) PROVE SharedInv'
  BY <1>14, <1>18 DEF LegacyTelnetError
<1>19. ASSUME NEW s \in Socket, LegacyFrameRejected(s) PROVE SharedInv'
  BY <1>6, <1>19 DEF LegacyFrameRejected
<1>20. ASSUME NEW s \in Socket,
              CloseTimer(s) \/ SocketErrorEvent(s) \/ SocketCloseEvent(s)
       PROVE  SharedInv'
  BY <1>1, <1>20, CloseKeeps DEF CloseTimer, SocketErrorEvent, SocketCloseEvent
<1>21. CASE UNCHANGED allVars BY <1>6, <1>21 DEF allVars, legacyVars
<1> QED
  BY <1>5, <1>7, <1>8, <1>9, <1>11, <1>12, <1>13, <1>15, <1>16, <1>17, <1>18, <1>19,
     <1>20, <1>21
  DEF LNext, LegacyStep, SocketStep

-----------------------------------------------------------------------------
(* What the invariant gives.                                               *)

(* The legacy connects that dial or are open are counted on their sockets. *)
LEMMA UpstreamCounted ==
  ASSUME SharedInv, NEW i \in IP, i # UnknownIP
  PROVE  Cardinality(LegacyUpstream(i))
           <= Cardinality(LegacyReserved(i)) + Cardinality(LegacyCounted(i))
<1> DEFINE U == {l \in LConn : lphase[l] \in {"dialing", "up"} /\ LIPOf(l) = i}
           T == LegacyCounted(i)
           f == [l \in U |-> LSocketOf[l]]
<1>1. ASSUME NEW l \in U PROVE LSocketOf[l] \in T
  <2>1. l \in LConn /\ counted[LSocketOf[l]] /\ LIPOf(l) = i
    BY DEF SharedInv, LegacyShape, ShapeOf
  <2> QED BY <2>1, FieldIsOwn DEF LegacyCounted, LIPOf
<1>2. f \in [U -> T] BY <1>1
<1>3. ASSUME NEW a \in U, NEW b \in U, f[a] = f[b] PROVE a = b
  <2> DEFINE s == LSocketOf[a]
  <2>1. LSocketOf[b] = s /\ a \in LConn /\ b \in LConn BY <1>3
  <2>2. s \in Socket /\ a # None /\ b # None BY <2>1, FieldIsOwn
  <2>3. (pendT[s] = a \/ ts[s] = a) /\ (pendT[s] = b \/ ts[s] = b)
    BY <2>1 DEF SharedInv, LegacyShape, ShapeOf
  <2>4. pendT[s] = None \/ ts[s] = None BY <2>2 DEF SharedInv, FieldsOwn
  <2> QED BY <2>2, <2>3, <2>4
<1>4. f \in Injection(U, T) BY <1>2, <1>3 DEF Injection, IsInjective
<1>5. /\ IsFiniteSet(T) /\ Cardinality(T) \in Nat
      /\ IsFiniteSet(LegacyReserved(i)) /\ Cardinality(LegacyReserved(i)) \in Nat
  BY LegacyFinite
<1> HIDE DEF f, U, T
<1>6. IsFiniteSet(U) /\ Cardinality(U) <= Cardinality(T) BY <1>4, <1>5, FS_Injection
<1>7. LegacyUpstream(i) = LegacyReserved(i) \cup U
  BY DEF LegacyUpstream, LegacyReserved, U
<1>8. /\ Cardinality(LegacyUpstream(i)) = Cardinality(LegacyReserved(i)) + Cardinality(U)
           - Cardinality(LegacyReserved(i) \cap U)
  BY <1>5, <1>6, <1>7, FS_Union
<1>9. Cardinality(LegacyReserved(i) \cap U) \in Nat /\ Cardinality(U) \in Nat
  BY <1>6, FS_Intersection, FS_CardinalityType
<1> QED BY <1>5, <1>6, <1>8, <1>9 DEF T

(* Exact counters under the limit bound the connections of both protocols. *)
LEMMA SharedBounds ==
  ASSUME SharedInv PROVE SharedCapacityExact
<1>1. ASSUME NEW i \in IP, i # UnknownIP
      PROVE  Cardinality(FromIP(Held, i)) + Cardinality(LegacyUpstream(i)) <= MaxPerIP
  <2> DEFINE A == FromIP(InFlightSet, i)
             B == FromIP(CountedSet, i)
  <2>1. A \in SUBSET Conn /\ B \in SUBSET Conn /\ A \cap B \in SUBSET Conn
    BY DEF FromIP, InFlightSet, CountedSet
  <2>2. FromIP(Held, i) = A \cup B BY DEF FromIP, Held
  <2>3. /\ IsFiniteSet(A) /\ IsFiniteSet(B) /\ Cardinality(A) \in Nat
        /\ Cardinality(B) \in Nat /\ Cardinality(A \cap B) \in Nat
    BY <2>1, ConnFinite
  <2>4. Cardinality(A \cup B) = Cardinality(A) + Cardinality(B) - Cardinality(A \cap B)
    BY <2>3, FS_Union
  <2>5. /\ pend[i] = Cardinality(A) + Cardinality(LegacyReserved(i))
        /\ est[i] = Cardinality(B) + LegacyCharged(i)
        /\ est[i] + pend[i] <= MaxPerIP
        /\ LegacyCharged(i) = Cardinality(LegacyCounted(i)) + Cardinality(LegacyLost(i))
    BY DEF LegacyCharged, SharedInv, SharedCountersExact, AddressSumsBounded
  <2>6. Cardinality(LegacyUpstream(i))
          <= Cardinality(LegacyReserved(i)) + Cardinality(LegacyCounted(i))
    BY <1>1, UpstreamCounted
  <2>7. /\ Cardinality(LegacyReserved(i)) \in Nat /\ Cardinality(LegacyCounted(i)) \in Nat
        /\ Cardinality(LegacyUpstream(i)) \in Nat /\ Cardinality(LegacyLost(i)) \in Nat
    BY LegacyFinite
  <2> HIDE DEF A, B
  <2>8. Cardinality(FromIP(Held, i)) <= Cardinality(A) + Cardinality(B)
    BY <2>2, <2>3, <2>4
  <2>9. Cardinality(FromIP(Held, i)) \in Nat BY <2>2, <2>3, <2>4, FS_Union, FS_CardinalityType
  <2> QED BY <2>3, <2>5, <2>6, <2>7, <2>8, <2>9, ConstantsAssumption
<1> QED BY <1>1 DEF SharedCapacityExact, SharedCapacityBounded, SharedInv

(* Before the first frame nothing is counted. *)
LEMMA SharedInit == LInit => SharedInv
<1> SUFFICES ASSUME LInit PROVE SharedInv
  OBVIOUS
<1>1. TypeOK BY InitType DEF LInit
<1>2. LTypeOK
  BY <1>1, LegacyAssumption DEF LInit, LTypeOK
<1>3. InFlightSet = {} /\ CountedSet = {}
  BY DEF LInit, Init, InFlightSet, CountedSet, InFlight, Counted
<1>4. \A i \in IP : /\ FromIP({}, i) = {} /\ LegacyReserved(i) = {}
                    /\ LegacyCounted(i) = {} /\ LegacyLost(i) = {}
  BY DEF FromIP, LegacyReserved, LegacyCounted, LegacyLost, LInit
<1>5. SharedCountersExact
  <2>1. Cardinality({}) = 0 BY FS_EmptySet
  <2>2. \A i \in IP : pend[i] = 0 /\ est[i] = 0 BY DEF LInit, Init
  <2> QED BY <1>3, <1>4, <2>1, <2>2 DEF SharedCountersExact, LegacyCharged
<1>6. AddressSumsBounded BY ConstantsAssumption DEF LInit, Init, AddressSumsBounded
<1>7. LegacyShape BY LegacyAssumption DEF LInit, LegacyShape, ShapeOf
<1>8. FieldsOwn BY DEF LInit, FieldsOwn
<1>9. LostOwn BY DEF LInit, LostOwn
<1> QED BY <1>2, <1>5, <1>6, <1>7, <1>8, <1>9 DEF SharedInv

(* A step of the specification is one of LNext. *)
LEMMA LStepIsNext == [LStep]_<<allVars, arbitrary, left>> => [LNext]_allVars
  BY DEF LStep

(* The counters both protocols share are exact through every order of      *)
(* frames, DNS answers, MUD closes, socket 'error' and 'close' events and  *)
(* 500 ms timers, for any number of legacy connects per socket: the only   *)
(* counts that belong to nothing open are those a second connect wrote     *)
(* over in legacyCountedIp; and maxPerIP bounds the upstream connections   *)
(* of both protocols together.                                             *)
THEOREM SharedTheorem == LSpec => []SharedCapacityExact
<1>1. SharedInv /\ [LStep]_<<allVars, arbitrary, left>> => SharedInv'
  BY SharedStep, LStepIsNext
<1>2. SharedInv => SharedCapacityExact BY SharedBounds
<1> QED BY SharedInit, <1>1, <1>2, PTL DEF LSpec

(* What a step may never do to a socket that closes or a connect it cut off. *)
TornDownStep ==
  /\ \A s \in Socket : open[s] /\ ~open'[s] /\ sockSess[s] = None =>
       /\ ~counted'[s]
       /\ \A l \in LConn : LSocketOf[l] = s =>
            /\ lphase'[l] \notin {"dialing", "up"}
            /\ lphase'[l] = "dns" => l \in aborted'
  /\ \A l \in aborted : lphase'[l] \notin {"dialing", "up"}

(* Only the 'close' event closes a socket, and no connect is un-aborted. *)
LEMMA CloseOnly ==
  ASSUME SharedInv, [LNext]_allVars
  PROVE  /\ aborted \subseteq aborted'
         /\ \A s \in Socket : open[s] /\ ~open'[s] => SocketCloseEvent(s)
<1>0. open \in [Socket -> BOOLEAN] BY DEF SharedInv, LTypeOK, TypeOK
<1>1. CASE TypedStep BY <1>1, TypedIsNext DEF legacyVars
<1>2. ASSUME NEW l \in LConn,
             \/ LegacyConnectRejected(l) \/ LegacyConnectDial(l) \/ LegacyConnectResolve(l)
             \/ LegacyResolveAllowed(l) \/ LegacyResolveDenied(l)
             \/ LegacyDialSucceeds(l) \/ LegacyDialFails(l)
             \/ LegacyTelnetClosed(l) \/ LegacyTelnetError(l)
      PROVE  UNCHANGED <<open, aborted>>
  BY <1>2 DEF LegacyConnectRejected, LegacyConnectDial, LegacyConnectResolve,
     LegacyResolveAllowed, LegacyResolveDenied, LegacyDialSucceeds, LegacyDialFails,
     LegacyTelnetClosed, LegacyTelnetError, vars
<1>3. ASSUME NEW s \in Socket, CloseSocket(s) PROVE aborted \subseteq aborted'
  BY <1>3 DEF CloseSocket, TearDownUpstream
<1>4. ASSUME NEW s \in Socket, LegacyFrameRejected(s) PROVE UNCHANGED <<open, aborted>>
  BY <1>4 DEF LegacyFrameRejected, vars
<1>5. ASSUME NEW s \in Socket, CloseTimer(s) \/ SocketErrorEvent(s)
      PROVE  UNCHANGED open /\ aborted \subseteq aborted'
  BY <1>3, <1>5 DEF CloseTimer, SocketErrorEvent
<1>6. ASSUME NEW s \in Socket, SocketCloseEvent(s)
      PROVE  /\ aborted \subseteq aborted'
             /\ \A x \in Socket : open[x] /\ ~open'[x] => SocketCloseEvent(x)
  <2>1. \A x \in Socket : x # s => open'[x] = open[x]
    BY <1>0, <1>6 DEF SocketCloseEvent
  <2> QED BY <1>3, <1>6, <2>1 DEF SocketCloseEvent
<1>7. CASE UNCHANGED allVars BY <1>7 DEF allVars, vars, legacyVars
<1> QED
  BY <1>1, <1>2, <1>4, <1>5, <1>6, <1>7 DEF LNext, LegacyStep, SocketStep

(* Every step does what closeSocket promises. *)
LEMMA TornDownAlways ==
  ASSUME SharedInv, [LNext]_allVars PROVE TornDownStep
<1>1. SharedInv' BY SharedStep
<1>2. ASSUME NEW l \in aborted PROVE lphase'[l] \notin {"dialing", "up"}
  <2>1. l \in LConn /\ l \in aborted' BY CloseOnly DEF SharedInv, LTypeOK
  <2> QED BY <1>1, <2>1 DEF SharedInv, LegacyShape, ShapeOf
<1>3. ASSUME NEW s \in Socket, open[s], ~open'[s], sockSess[s] = None
      PROVE  /\ ~counted'[s]
             /\ \A l \in LConn : LSocketOf[l] = s =>
                  /\ lphase'[l] \notin {"dialing", "up"}
                  /\ lphase'[l] = "dns" => l \in aborted'
  <2>1. SocketCloseEvent(s) BY <1>3, CloseOnly
  <2>2. GiveBackCount(s) /\ TearDownUpstream(s)
    BY <1>3, <2>1 DEF SocketCloseEvent, CloseSocket
  <2>3. ~counted'[s] BY <2>2 DEF GiveBackCount, SharedInv, LTypeOK
  <2>4. ASSUME NEW l \in LConn, LSocketOf[l] = s
        PROVE  /\ lphase'[l] \notin {"dialing", "up"}
               /\ lphase'[l] = "dns" => l \in aborted'
    BY <2>2, <2>4, TornDown
  <2> QED BY <2>3, <2>4
<1> QED BY <1>2, <1>3 DEF TornDownStep

(* The 'close' event of a socket outside the typed protocol leaves no      *)
(* count of the socket and no dial of any of its legacy connects, and a    *)
(* connect cut off during DNS never comes up.                              *)
THEOREM TearDownTheorem == LSpec => ClosedIsTornDown
<1>1. SharedInv /\ [LStep]_<<allVars, arbitrary, left>> => SharedInv'
  BY SharedStep, LStepIsNext
<1>2. SharedInv /\ [LStep]_<<allVars, arbitrary, left>> => [TornDownStep]_allVars
  BY TornDownAlways, LStepIsNext
<1> QED BY SharedInit, <1>1, <1>2, PTL DEF LSpec, ClosedIsTornDown, TornDownStep

=============================================================================
