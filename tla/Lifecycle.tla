----------------------------- MODULE Lifecycle -----------------------------
(***************************************************************************)
(* The drain of the server (ShutdownCoordinator in shutdown.ts, with the   *)
(* steps srv.die gives it in wsproxy.ts) around the App Attest store: the  *)
(* server becomes unready, waits, closes its clients, waits for the        *)
(* listener to drain or for a timer, flushes the key store and exits,      *)
(* unless its deadline ends it first.  Upgrades are refused from the first *)
(* step on, HTTP requests until the listener closes are not.               *)
(***************************************************************************)
EXTENDS AppAttest

CONSTANTS
  Grace, ListenerWait, Deadline,
  MaxConns      \* bound: client connections open at once

ASSUME LifecycleAssumption ==
  /\ {Grace, ListenerWait, Deadline, MaxConns} \subseteq Nat
  /\ Grace < Deadline      \* runtime-config.ts refuses to start otherwise

VARIABLES
  stage,       \* the step the drain has reached; srv.open = (stage = "serving")
  stageTimer,  \* the timer of the step that waits, or None
  deadline,    \* the deadline timer, or None
  conns,       \* TCP connections of upgraded clients
  drained,     \* history: the listener closed before its timer
  startedAt    \* history: when the first signal came

drainVars == <<stage, stageTimer, deadline, conns, drained, startedAt>>
lifeVars == <<attestVars, drainVars>>

Fresh ==
  /\ stage = "serving" /\ stageTimer = None /\ deadline = None
  /\ conns = 0 /\ drained = FALSE /\ startedAt = None

LifeInit == AInit /\ Fresh

Quiet == UNCHANGED drainVars

-----------------------------------------------------------------------------
(* The listener takes requests until it is closed; a body already on its    *)
(* way is still read.                                                       *)
Listening == stage \in {"serving", "grace"}

LRequests ==
  \/ Listening /\ GenerateChallenge /\ Quiet
  \/ Listening /\ \E n \in 1..issued, k \in Keys : RegisterArrives(n, k) /\ Quiet
  \/ \E b \in bodies : RegisterAbandoned(b) /\ Quiet
  \/ \E b \in bodies, d \in Defects : RegisterCompletes(b, d) /\ Quiet

(* An upgrade, which changes its key's entry if it is accepted; while       *)
(* draining it is refused before its nonce is looked at.                    *)
LAssertions ==
  /\ stage = "serving" /\ conns < MaxConns
  /\ Assertions
  /\ conns' = IF attestedKeys' = attestedKeys THEN conns ELSE conns + 1
  /\ UNCHANGED <<stage, stageTimer, deadline, drained, startedAt>>

(* A client goes, or answers the close frame. *)
ConnEnds ==
  /\ Idle /\ conns > 0
  /\ conns' = conns - 1
  /\ UNCHANGED <<attestVars, stage, stageTimer, deadline, drained, startedAt>>

LSaveTimer == SaveTimerFires /\ Quiet

(* The rename of a save; the flush of the drain is its last step. *)
LRename ==
  /\ RenameSave
  /\ stage' = IF stage = "flushing" THEN "exiting" ELSE stage
  /\ deadline' = IF stage = "flushing" THEN None ELSE deadline
  /\ UNCHANGED <<stageTimer, conns, drained, startedAt>>

-----------------------------------------------------------------------------
(* Mutant of Signal: every signal starts the drain and its deadline anew. *)
SignalRestarts ==
  /\ Idle
  /\ stage' = "grace" /\ stageTimer' = now + Grace /\ deadline' = now + Deadline
  /\ startedAt' = IF startedAt = None THEN now ELSE startedAt
  /\ UNCHANGED <<attestVars, conns, drained>>

(* SIGINT, SIGABRT or SIGTERM: the drain starts once.  Later signals reach  *)
(* the same coordinator and do nothing.                                     *)
Signal ==
  /\ Idle
  /\ IF stage = "serving"
     THEN /\ stage' = "grace" /\ stageTimer' = now + Grace /\ deadline' = now + Deadline
          /\ startedAt' = now
     ELSE UNCHANGED <<stage, stageTimer, deadline, startedAt>>
  /\ UNCHANGED <<attestVars, conns, drained>>

(* The grace period is over: the heartbeat stops, clients get their close   *)
(* frame, telnet sockets and sessions are closed, the listener starts to    *)
(* close.                                                                   *)
GraceEnds ==
  /\ Idle /\ stage = "grace" /\ stageTimer <= now
  /\ stage' = "listener" /\ stageTimer' = now + ListenerWait
  /\ UNCHANGED <<attestVars, deadline, conns, drained, startedAt>>

(* Mutant of ListenerCloses: the pending save is cancelled, not flushed. *)
ListenerClosesUnflushed ==
  /\ Idle /\ stage = "listener"
  /\ (bodies = {} /\ conns = 0) \/ stageTimer <= now
  /\ stage' = "exiting" /\ stageTimer' = None
  /\ drained' = (bodies = {} /\ conns = 0)
  /\ saveTimer' = None
  /\ UNCHANGED <<now, up, lives, challenges, issued, bodies, attestedKeys, file, staged, history,
                 deadline, conns, startedAt>>

(* The last connection and request are gone, or the timer bails out; then   *)
(* the store is flushed, whatever its debounce timer says.                  *)
ListenerCloses ==
  /\ Idle /\ stage = "listener"
  /\ (bodies = {} /\ conns = 0) \/ stageTimer <= now
  /\ stage' = "flushing" /\ stageTimer' = None
  /\ drained' = (bodies = {} /\ conns = 0)
  /\ StageSave
  /\ UNCHANGED <<now, up, lives, challenges, issued, bodies, attestedKeys, history,
                 deadline, conns, startedAt>>

(* The flush throws; the coordinator goes on, the old file stays. *)
FlushFails ==
  /\ up /\ stage = "flushing" /\ staged # None
  /\ staged' = None /\ stage' = "unsaved" /\ deadline' = None
  /\ UNCHANGED <<now, up, lives, memory, issued, file, history, stageTimer, conns, drained,
                 startedAt>>

(* The deadline passes with a step still waiting: no later step runs. *)
DeadlineFires ==
  /\ Idle /\ stage \in {"grace", "listener"} /\ deadline <= now
  /\ stage' = "exiting" /\ stageTimer' = None /\ deadline' = None
  /\ UNCHANGED <<attestVars, conns, drained, startedAt>>

(* process.exit, one turn of the event loop after the end of the drain, or  *)
(* a crash at any time.                                                     *)
Ends ==
  /\ Crash
  /\ stage' = "serving" /\ stageTimer' = None /\ deadline' = None
  /\ conns' = 0 /\ drained' = FALSE /\ startedAt' = None

LRestart == Restart /\ Quiet

LTick ==
  /\ ATick /\ Quiet
  /\ stage \in {"serving", "grace", "listener"}
  /\ (stage # "serving" => stageTimer > now /\ deadline > now)

LifeNext ==
  \/ LRequests \/ LAssertions \/ ConnEnds \/ LSaveTimer \/ LRename
  \/ Signal \/ GraceEnds \/ ListenerCloses \/ FlushFails \/ DeadlineFires
  \/ Ends \/ LRestart \/ LTick

LifeSpec == LifeInit /\ [][LifeNext]_lifeVars

-----------------------------------------------------------------------------
(* debouncedSaveAttestedKeys: a registration or sign count the server has   *)
(* answered for is in the file or a save is pending, through load, eviction *)
(* and drain; only a flush that failed leaves it to the exiting process.    *)
AckedIsSavedOrPending == Idle /\ saveTimer = None /\ stage # "unsaved" => Durable

(* srv.die: once the listener has drained and the flush has worked, no      *)
(* handler can change the store any more, so a clean exit loses no          *)
(* registration or sign count the server answered for.                      *)
DrainedExitKeepsKeys == stage = "exiting" /\ drained => Durable

(* ShutdownCoordinator.start: however often it is signalled, the process    *)
(* does not outlive the first signal by more than the deadline.             *)
ExitByDeadline == up /\ startedAt # None => now <= startedAt + Deadline
=============================================================================
