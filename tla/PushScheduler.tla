--------------------------- MODULE PushScheduler ---------------------------
(***************************************************************************)
(* BackgroundPushScheduler (background-push-scheduler.ts) for one session  *)
(* with a device token: output that arrives while no client is attached    *)
(* becomes Live Activity and silent pushes, and an unacknowledged activity *)
(* push a fallback silent push.                                            *)
(*                                                                         *)
(* Each push is awaited: what the code read before the await it writes     *)
(* back after it, to the tracking object it started with, while output,    *)
(* acknowledgements, timers and clients go on.  The outcome of a push is   *)
(* the notification manager's, and nothing bounds the wait for it: the     *)
(* request timer there is reset by activity, and the ack timeout, being    *)
(* configuration, may be shorter.  So several pushes can be in flight.     *)
(***************************************************************************)
EXTENDS Integers, FiniteSets

CONSTANTS
  SilentPushInterval, ActivityPushInterval, ActivityAckTimeout,
  FallbackCooldown, MaxBackoff, MaxFallbacksPerHour,
  Hour,           \* the fallback window
  None,
  Start,          \* Date.now() when the proxy starts
  MaxTime, MaxSeq, MaxTracks   \* bounds: ticks, outputs, times a client leaves

(* The settings are whatever integers the environment holds. *)
ASSUME PushAssumption ==
  /\ {SilentPushInterval, ActivityPushInterval, ActivityAckTimeout, FallbackCooldown,
      MaxFallbacksPerHour} \subseteq Int
  /\ {MaxBackoff, Start, MaxTime, MaxSeq, MaxTracks} \subseteq Nat
  /\ Hour \in Nat \ {0}

VARIABLES
  now,         \* Date.now()
  seq,         \* the session's last output sequence
  away,        \* ~session.hasClients()
  activity,    \* the session has an activityPushToken
  track,       \* tracked.get(session.id), or None
  gen,         \* which tracking object that is
  jobs,        \* awaited pushes
  ackTimer,    \* pendingAckTimeouts.get(session.id), or None
  wakes,       \* history: the fallbacks decided on that have not failed
  overlap,     \* history: the most fallbacks of this tracking object that
               \* were in flight when another was decided on
  woken        \* history: a fallback was decided under an attached client

history == <<wakes, overlap, woken>>
pushVars == <<now, seq, away, activity, track, gen, jobs, ackTimer, history>>

NewTrack ==
  [pushed |-> seq, silentAt |-> 0, activityAt |-> 0, ack |-> 0,
   backoff |-> FallbackCooldown, nextFallback |-> 0, count |-> 0, window |-> now]

PInit ==
  /\ now = Start /\ seq = 0
  /\ away = FALSE /\ activity \in BOOLEAN
  /\ track = None /\ gen = 0
  /\ jobs = {} /\ ackTimer = None
  /\ wakes = {} /\ overlap = 0 /\ woken = FALSE

-----------------------------------------------------------------------------
(* The last client leaves: trackSession. *)
TrackSession ==
  /\ ~away /\ gen < MaxTracks
  /\ away' = TRUE
  /\ track' = NewTrack /\ gen' = gen + 1 /\ overlap' = 0
  /\ UNCHANGED <<now, seq, activity, jobs, ackTimer, wakes, woken>>

(* Mutant of UntrackSession: only the timer is cleared. *)
UntrackSessionKeeps ==
  /\ away
  /\ away' = FALSE
  /\ ackTimer' = None
  /\ UNCHANGED <<now, seq, activity, track, gen, jobs, history>>

(* A client resumes: untrackSession. *)
UntrackSession ==
  /\ away
  /\ away' = FALSE
  /\ track' = None /\ ackTimer' = None
  /\ UNCHANGED <<now, seq, activity, gen, jobs, history>>

(* syncAck for lastSeq; nothing happens when the session is not tracked. *)
RecordSyncAck(lastSeq) ==
  /\ track # None
  /\ track' = [track EXCEPT
       !.ack = IF lastSeq > @ THEN lastSeq ELSE @,
       !.pushed = IF lastSeq > @ THEN lastSeq ELSE @,
       !.nextFallback = now + FallbackCooldown,
       !.backoff = FallbackCooldown]
  /\ ackTimer' = None
  /\ UNCHANGED <<now, seq, away, activity, gen, jobs, history>>

Job(kind, s, both) ==
  [kind |-> kind, seq |-> s, at |-> now, both |-> both, gen |-> gen]

(* The pushes onBufferedOutput decides on for output s: the activity push  *)
(* is awaited first, the silent one may follow it.                         *)
Decided(s) ==
  LET silentDue == now - track.silentAt >= SilentPushInterval
      activityDue == activity /\ now - track.activityAt >= ActivityPushInterval
  IN IF track = None \/ s <= track.pushed THEN {}
     ELSE IF activityDue THEN {Job("activity", s, silentDue)}
     ELSE IF silentDue THEN {Job("silent", s, FALSE)}
     ELSE {}

(* MUD output; onBufferedOutput runs when no client is attached. *)
BufferedOutput ==
  /\ seq < MaxSeq
  /\ seq' = seq + 1
  /\ jobs' = jobs \cup (IF away THEN Decided(seq') ELSE {})
  /\ UNCHANGED <<now, away, activity, track, gen, ackTimer, history>>

(* A write to the tracking object a job was started with. *)
Written(j, new) == IF track # None /\ gen = j.gen THEN new ELSE track

(* Replaces the session's timer, whatever it was for. *)
ScheduleAckTimeout(s) == ackTimer' = [seq |-> s, due |-> now + ActivityAckTimeout]

(* sendActivityKitPush returned.  Where it failed nothing is recorded; the *)
(* silent push decided before it follows either way.                       *)
ActivityPushed(j, ok) ==
  /\ j \in jobs /\ j.kind = "activity"
  /\ LET next == IF j.both THEN {[j EXCEPT !.kind = "silent", !.both = FALSE]} ELSE {}
     IN jobs' = (jobs \ {j}) \cup next
  /\ \/ /\ ok
        /\ track' = Written(j, [track EXCEPT !.activityAt = j.at, !.pushed = j.seq])
        /\ ScheduleAckTimeout(j.seq)
     \/ /\ ~ok
        /\ UNCHANGED <<track, ackTimer>>
  /\ UNCHANGED <<now, seq, away, activity, gen, history>>

(* sendSilentPush of onBufferedOutput returned. *)
SilentPushed(j, ok) ==
  /\ j \in jobs /\ j.kind = "silent"
  /\ jobs' = jobs \ {j}
  /\ \/ /\ ok
        /\ track' = Written(j, [track EXCEPT !.silentAt = j.at, !.pushed = j.seq])
     \/ /\ ~ok
        /\ UNCHANGED track
  /\ UNCHANGED <<now, seq, away, activity, gen, ackTimer, history>>

-----------------------------------------------------------------------------
(* The hourly window as handleAckTimeout leaves it. *)
Rolled(t) == IF now - t.window >= Hour THEN [t EXCEPT !.window = now, !.count = 0] ELSE t

(* handleAckTimeout passed its early returns up to the hourly window. *)
MayFallback(pushSequence) ==
  /\ track # None
  /\ track.ack < pushSequence
  /\ now >= track.nextFallback
  /\ now - track.silentAt >= SilentPushInterval

(* The fallbacks of the present tracking object that are in flight. *)
Current == {j \in jobs : j.kind = "fallback" /\ j.gen = gen}

(* handleAckTimeout up to its await. *)
AckTimeout ==
  /\ ackTimer # None /\ ackTimer.due <= now
  /\ ackTimer' = None
  /\ \/ /\ ~MayFallback(ackTimer.seq)
        /\ UNCHANGED <<track, jobs, history>>
     \/ /\ MayFallback(ackTimer.seq)
        /\ track' = Rolled(track)
        /\ IF track'.count >= MaxFallbacksPerHour
           THEN UNCHANGED <<jobs, history>>
           ELSE /\ jobs' = jobs \cup {Job("fallback", ackTimer.seq, FALSE)}
                /\ wakes' = wakes \cup {Job("fallback", ackTimer.seq, FALSE)}
                /\ overlap' = IF overlap < Cardinality(Current)
                              THEN Cardinality(Current) ELSE overlap
                /\ woken' = (woken \/ ~away)
  /\ UNCHANGED <<now, seq, away, activity, gen>>

(* Mutant of FallbackPushed: the hourly counter is not incremented. *)
FallbackPushedUncounted(j, ok) ==
  /\ j \in jobs /\ j.kind = "fallback"
  /\ jobs' = jobs \ {j}
  /\ \/ /\ ok
        /\ track' = Written(j, [track EXCEPT
             !.silentAt = j.at,
             !.nextFallback = j.at + track.backoff,
             !.backoff = IF 2 * @ < MaxBackoff THEN 2 * @ ELSE MaxBackoff])
        /\ UNCHANGED wakes
     \/ /\ ~ok
        /\ wakes' = wakes \ {j}
        /\ UNCHANGED track
  /\ UNCHANGED <<now, seq, away, activity, gen, ackTimer, overlap, woken>>

(* The fallback's sendSilentPush returned; only a success is counted. *)
FallbackPushed(j, ok) ==
  /\ j \in jobs /\ j.kind = "fallback"
  /\ jobs' = jobs \ {j}
  /\ \/ /\ ok
        /\ track' = Written(j, [track EXCEPT
             !.silentAt = j.at, !.count = @ + 1,
             !.nextFallback = j.at + track.backoff,
             !.backoff = IF 2 * @ < MaxBackoff THEN 2 * @ ELSE MaxBackoff])
        /\ UNCHANGED wakes
     \/ /\ ~ok
        /\ wakes' = wakes \ {j}
        /\ UNCHANGED track
  /\ UNCHANGED <<now, seq, away, activity, gen, ackTimer, overlap, woken>>

(* Time passes; a timer that is due fires before it does.  A push settles  *)
(* whenever Apple answers.                                                 *)
Tick ==
  /\ now < Start + MaxTime
  /\ ackTimer # None => now < ackTimer.due
  /\ now' = now + 1
  /\ UNCHANGED <<seq, away, activity, track, gen, jobs, ackTimer, history>>

PNext ==
  \/ TrackSession \/ UntrackSession \/ BufferedOutput
  \/ \E n \in 0 .. seq : RecordSyncAck(n)
  \/ \E j \in jobs, ok \in BOOLEAN :
       ActivityPushed(j, ok) \/ SilentPushed(j, ok) \/ FallbackPushed(j, ok)
  \/ AckTimeout \/ Tick

PSpec == PInit /\ [][PNext]_pushVars

-----------------------------------------------------------------------------
(* Properties.                                                             *)

JobType ==
  [kind : {"activity", "silent", "fallback"}, seq : Nat, at : Nat, both : BOOLEAN,
   gen : Nat]

TrackType ==
  [pushed : Nat, silentAt : Nat, activityAt : Nat, ack : Nat, backoff : Int,
   nextFallback : Int, count : Nat, window : Nat]

(* The scheduler's state is well typed. *)
PTypeOK ==
  /\ now \in Nat /\ seq \in Nat /\ gen \in Nat
  /\ away \in BOOLEAN /\ activity \in BOOLEAN /\ woken \in BOOLEAN
  /\ wakes \subseteq JobType /\ overlap \in Nat
  /\ track # None => track \in TrackType
  /\ \A j \in jobs : j \in JobType
  /\ ackTimer # None => ackTimer \in [seq : Nat, due : Int]

(* The fallbacks of the present tracking object and its hourly window that *)
(* woke the device or still may.                                           *)
InWindow == {w \in wakes : w.gen = gen /\ w.at >= track.window}

(* handleAckTimeout compares the counter with maxFallbacksPerHour before   *)
(* its await and increments it after.  The fallbacks of a window, counted  *)
(* by what is sent and not by the counter, keep to the maximum as long as  *)
(* they do not overlap, and exceed it by at most the number that were in   *)
(* flight together; that holds for any order of the timeouts, and until a  *)
(* client comes back and leaves, when trackSession starts a new count.     *)
FallbacksCapped ==
  track # None /\ InWindow # {} =>
    Cardinality(InWindow) <= MaxFallbacksPerHour + overlap

(* No device is woken by an ack timeout while its player is looking,       *)
(* although an activity push that ends after the player came back arms a   *)
(* timer for a session no longer tracked.                                  *)
NoFallbackWhileWatching == ~woken

=============================================================================
