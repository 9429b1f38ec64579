--------------------------- MODULE Notifications ---------------------------
(***************************************************************************)
(* Trigger notifications of one session nobody watches: TriggerMatcher     *)
(* (trigger-matcher.ts) decides which output notifies, under its rate      *)
(* limits, and NotificationManager (notification-manager.ts) sends it over *)
(* a cached HTTP/2 connection to APNS, which may fail, drain or vanish.    *)
(*                                                                         *)
(* Whether a pattern matches a text is external; queueNotification has no  *)
(* caller, so the retry queue is always empty and is left out.             *)
(***************************************************************************)
EXTENDS Integers, Sequences, FiniteSets

CONSTANTS
  Triggers,       \* the trigger ids, in the order of the map
  TypeOf,         \* the type of a trigger
  Minute, Hour, MaxAge,   \* the limiter's periods, cleanupOldEntries' age
  TotalPerHour,
  None,
  MaxTime, MaxNotes,      \* bounds: ticks, notifications,
  MaxRequests, MaxConns   \* of which the first may be sent, connections opened

TriggerIds == {Triggers[i] : i \in DOMAIN Triggers}

(* An entry of rateLimits. *)
RateLimits == [count : Nat, reset : Nat, last : [TriggerIds -> Nat]]

ASSUME NotificationAssumption ==
  /\ {Minute, Hour, MaxAge, TotalPerHour, MaxTime, MaxNotes,
      MaxRequests, MaxConns} \subseteq Nat
  /\ Minute <= Hour /\ Hour + Minute <= MaxAge
  /\ TotalPerHour > 0
  /\ None \notin RateLimits

VARIABLES
  now,
  limit,      \* rateLimits.get(session.id), or None
  notes,      \* history: the matches returned, with their times
  conn,       \* HTTP/2 connections, by the order they were opened
  cached,     \* apnsClient, 0 for null
  waiting     \* requests whose promise is not settled: note and connection

noteVars == <<now, limit, notes>>
apnsVars == <<conn, cached, waiting>>
nVars == <<noteVars, apnsVars>>

(* "dead" is closed or destroyed with its events still to come; "draining" *)
(* got GOAWAY.                                                             *)
ConnState == {"unused", "open", "draining", "dead", "gone"}

NInit ==
  /\ now = 1 /\ limit = None /\ notes = <<>>
  /\ conn = [k \in 1 .. MaxConns |-> "unused"]
  /\ cached = 0 /\ waiting = {}

-----------------------------------------------------------------------------
(* checkRateLimit.  The hourly counter restarts on the first attempt after *)
(* its hour.                                                               *)
Entry ==
  IF limit = None THEN [count |-> 0, reset |-> now, last |-> [t \in TriggerIds |-> 0]]
  ELSE IF now - limit.reset > Hour THEN [limit EXCEPT !.count = 0, !.reset = now]
  ELSE limit

Allowed(t) ==
  /\ Entry.count < TotalPerHour
  /\ Entry.last[t] = 0 \/ now - Entry.last[t] >= Minute

(* match: the first trigger, in map order, that the text matches and that  *)
(* its limits allow.                                                       *)
FirstAllowed(matching) ==
  {t \in matching : /\ Allowed(t)
                    /\ \A i, j \in DOMAIN Triggers :
                         Triggers[j] = t /\ i < j /\ Triggers[i] \in matching
                           => ~Allowed(Triggers[i])}

(* Mutant of Noted: the trigger's own time is not recorded. *)
NotedCountOnly(t) == [Entry EXCEPT !.count = @ + 1]

Noted(t) == [Entry EXCEPT !.count = @ + 1, !.last[t] = now]

Healthy(k) == k # 0 /\ conn[k] = "open"

(* getAPNSClient: the cached connection while it is healthy, or a new one. *)
Client ==
  IF Healthy(cached) THEN {cached}
  ELSE {k \in 1 .. MaxConns : conn[k] = "unused" /\ \A i \in 1 .. k - 1 : conn[i] # "unused"}

(* sendRawToAPNS up to its promise: client.request() returns a stream, or  *)
(* throws, and the connection is closed.                                   *)
Send(n) ==
  \E k \in Client :
    \/ /\ conn' = [conn EXCEPT ![k] = "open"] /\ cached' = k
       /\ waiting' = waiting \cup {[note |-> n, on |-> k]}
    \/ /\ conn' = [conn EXCEPT ![k] = "dead"] /\ cached' = 0
       /\ UNCHANGED waiting

(* isAvailable is false: APNS is not configured, or the token expired and  *)
(* the key file cannot be read for a new one.  The notification is lost.   *)
Unavailable == UNCHANGED apnsVars

(* Output that some triggers match, for a session with a device token:     *)
(* processOutput, sendNotification and the start of the request.           *)
NotifiedOutput(matching) ==
  /\ Len(notes) < MaxNotes
  /\ \E t \in FirstAllowed(matching) :
       /\ limit' = Noted(t)
       /\ notes' = Append(notes, [trigger |-> t, at |-> now])
  /\ \/ Len(notes) < MaxRequests /\ Send(Len(notes) + 1)
     \/ Unavailable
  /\ UNCHANGED now

(* Output that matches and is held back: the hour may have been restarted. *)
HeldBackOutput(matching) ==
  /\ limit # None /\ matching # {} /\ FirstAllowed(matching) = {}
  /\ limit' = Entry
  /\ UNCHANGED <<now, notes, apnsVars>>

CleanupOldEntries ==
  /\ limit # None /\ now - limit.reset > MaxAge
  /\ limit' = None
  /\ UNCHANGED <<now, notes, apnsVars>>

-----------------------------------------------------------------------------
(* The APNS connection. *)

(* clearAPNSClient: only the connection it is called for. *)
Cleared(k) == IF cached = k THEN 0 ELSE cached

(* finish: the request is settled, its listeners are gone. *)
Settle(r) ==
  /\ r \in waiting
  /\ waiting' = waiting \ {r}
  /\ UNCHANGED <<noteVars, conn, cached>>

(* 'end' of a response, a stream error, the stream's timer.  That timer    *)
(* counts ten seconds without activity and not from the start, so it may   *)
(* fire at any time while the request waits, or never.                     *)
Answered(r) == conn[r.on] \in {"open", "draining"} /\ Settle(r)
RequestError(r) == Settle(r)
RequestTimeout(r) == Settle(r)

(* GOAWAY: streams the server will still finish go on, the others fail. *)
GoAway(k, kept) ==
  /\ conn[k] = "open"
  /\ conn' = [conn EXCEPT ![k] = "draining"]
  /\ cached' = Cleared(k)
  /\ waiting' = {r \in waiting : r.on = k => r \in kept}
  /\ UNCHANGED noteVars

(* The peer or the network ends a connection; Node reports it later. *)
ConnectionDies(k) ==
  /\ conn[k] \in {"open", "draining"}
  /\ conn' = [conn EXCEPT ![k] = "dead"]
  /\ UNCHANGED <<noteVars, cached, waiting>>

(* Mutant of ConnectionEvent: the requests are left to their own timers. *)
ConnectionEventUnheard(k) ==
  /\ conn[k] = "dead"
  /\ conn' = [conn EXCEPT ![k] = "gone"]
  /\ cached' = Cleared(k)
  /\ UNCHANGED <<noteVars, waiting>>

(* 'error' and 'close' of the connection. *)
ConnectionEvent(k) ==
  /\ conn[k] = "dead"
  /\ conn' = [conn EXCEPT ![k] = "gone"]
  /\ cached' = Cleared(k)
  /\ waiting' = {r \in waiting : r.on # k}
  /\ UNCHANGED noteVars

Tick ==
  /\ now < MaxTime /\ now' = now + 1
  /\ UNCHANGED <<limit, notes, apnsVars>>

Requests ==
  \E r \in waiting : Answered(r) \/ RequestError(r) \/ RequestTimeout(r)

NNext ==
  \/ \E m \in SUBSET TriggerIds : NotifiedOutput(m) \/ HeldBackOutput(m)
  \/ CleanupOldEntries
  \/ Requests
  \/ \E k \in 1 .. MaxConns :
       \/ ConnectionDies(k) \/ ConnectionEvent(k)
       \/ \E kept \in SUBSET waiting : GoAway(k, kept)
  \/ Tick

NSpec == NInit /\ [][NNext]_nVars

-----------------------------------------------------------------------------
(* Properties.                                                             *)

(* The state of the limiter and of the connection cache is well typed.     *)
NTypeOK ==
  /\ now \in 1 .. MaxTime
  /\ limit # None => limit.count \in 0 .. TotalPerHour
  /\ conn \in [1 .. MaxConns -> ConnState]
  /\ cached \in 0 .. MaxConns
  /\ waiting \subseteq [note : 1 .. MaxRequests, on : 1 .. MaxConns]

(* One trigger notifies at most once a minute, also across the restart of  *)
(* the hour and the removal of old limiter entries.                        *)
TriggerSpacing ==
  \A i, j \in DOMAIN notes :
    i < j /\ notes[i].trigger = notes[j].trigger => notes[j].at - notes[i].at >= Minute

(* The hour of the limiter starts with an attempt, so an hour anywhere in  *)
(* time may see the end of one and the start of the next: never more than  *)
(* twice totalPerHour, whatever is cleaned up in between.                  *)
HourlyBound ==
  \A i \in DOMAIN notes :
    Cardinality({j \in DOMAIN notes : notes[j].at \in notes[i].at .. notes[i].at + Hour - 1})
      <= 2 * TotalPerHour

(* Both limits of the trigger matcher hold over its two kinds of window.   *)
TriggerLimits == TriggerSpacing /\ HourlyBound

(* No connection to APNS is forgotten: one that is open and was not told   *)
(* to go away is the cached one, although the events of its predecessors   *)
(* arrive late.                                                            *)
OpenIsCached == \A k \in 1 .. MaxConns : conn[k] = "open" => cached = k

(* Nobody awaits a push on a connection whose end was reported. *)
NoneWaitsOnGone == \A r \in waiting : conn[r.on] # "gone"

(* The shared connection to APNS is tracked through its events: neither an *)
(* open connection nor the requests of a closed one are forgotten.         *)
ConnectionTracked == OpenIsCached /\ NoneWaitsOnGone

-----------------------------------------------------------------------------
(* "1 per trigger type per minute" (trigger-matcher.ts:10). *)
TypeSpacing ==
  \A i, j \in DOMAIN notes :
    i < j /\ TypeOf[notes[i].trigger] = TypeOf[notes[j].trigger]
      => notes[j].at - notes[i].at >= Minute

=============================================================================
