# A formal model of mud-web-proxy

mud-web-proxy lets browsers and an iOS app play MUDs: a client talks WebSocket
to the proxy, the proxy talks telnet (over TLS or plain TCP) to the MUD. This
directory holds TLA+ models of the parts of the proxy whose correctness depends
on the order of events, TLC configurations that check them on small instances,
and TLAPS proofs for instances of every size. Paths below are relative to the
repository; `session-integration.ts` and its neighbours are in its `src/`.

## 1. Inventory

| Component | State it keeps | Operations | Interacts with |
|---|---|---|---|
| `SessionIntegration` (session-integration.ts) | `terminatingSessions` | one handler per typed frame (connect, resume, input, NAWS, disconnect, activityToken, syncAck), `handleSocketClose`, `handleMudTermination`, `processMudData` | calls SessionManager, the push scheduler, notifications; called by wsproxy.ts and by telnet events |
| `SessionManager` (session-manager.ts) | `sessions`, `socketToSession`, `deviceSessions`, `ipConnections`, `pendingDialCounts`, two global totals, one interval | create, attach/detach, removeSession, enforceConnectionLimits, reserve/releasePendingDial, increment/decrementIPCount, reaping and timeout | owns Sessions; its counters are shared with the legacy protocol |
| `Session` (session.ts) | clients, telnet socket, tokens, `clientlessSince`, `lastClientConnection`, replay buffer, parser | connect, attachClient, detachClient, broadcast, buffer, close | dials through mud-transport.ts; callbacks into the two above |
| legacy protocol (wsproxy.ts) | per socket: `ts`, `pendingMudTransport`, `legacyCountedIp`, delayed closes | `openLegacyConnection`, `initT`, `rejectLegacy`, `closeSocket` | same policy and counters as the typed protocol; `closeSocket` serves both |
| MUD transport (mud-transport.ts) | two sockets, two timers, `settled`, `downgraded` | one dial with TLS fallback, deadline and abort | used by Session and initT |
| replay buffer (circular-buffer.ts) | ring, pointers, byte count, index | append, replayAfter, clear | filled by processMudData, read by resume |
| telnet parser (telnet-parser.ts) | state, option and payload of the sequence being read, negotiated options, password mode | `process` of one TCP read | fed by processMudData; writes replies to the MUD |
| background push scheduler | tracked sessions, ack timers | track, untrack, onBufferedOutput, recordSyncAck, ack timeout | driven by closes and MUD output; awaits the notification manager |
| notifications and triggers (notification-manager.ts, trigger-matcher.ts) | a limiter entry per session, the cached HTTP/2 connection, requests | match, checkRateLimit, sendRawToAPNS, connection events | called by processMudData and the scheduler |
| App Attest (app-attest.ts) | challenges, attested keys, their file, a debounced save | challenge, registration, assertion, save, load | routes and upgrades of wsproxy.ts |
| shutdown (shutdown.ts, `srv.die`) | step, deadline | start, the steps of the drain | closes everything above |
| frame and secret limits (message-rate-limit.ts, wsproxy-utils.ts) | windows by connection and by address | tryConsume, check, recordFailure, recordSuccess | upgrade and message handlers |
| heartbeat (heartbeat.ts) | `lastSeen` by socket | track, markAlive, untrack, sweep | ping timer, pongs and frames |
| configuration (runtime-config.ts) | none | parse once, refuse or start | read by everything |
| target policy, client frames, forwarded addresses | none | pure decisions | upgrade, message and connect handlers |
| HTTP server and upgrade (wsproxy.ts) | `srv.open`, `srv.sockets` | routes, upgrade, connection | in front of everything |
| logging, redaction, HTML pages, build tools | none | formatting | |

What is hard in this code: it is single-threaded, but a connect is spread over
several macrotasks (frame, DNS answer, TCP and TLS events) and every one of them
can be separated by a close, a second frame, an eviction, a resume on another
socket or a timer. Capacity is taken in one of these tasks and must be given
back in exactly one other. Four timers (150 ms flush, 200 ms removal, 500 ms
legacy close, five-minute interval) clean up what somebody else may already
have cleaned up. A push is decided before an await and recorded after it; a
byte stream may be cut anywhere; the process may die between two steps of a
save. `PROJECT.json` lists the hazards,
each with the line where it bites and the properties that cover it.

What makes each component correct: the counters equal what is really open, the
limits bound it, and every slot comes back (session core and legacy protocol);
the two attachment indexes agree and a session without clients is on its way to
be reclaimed (session core); a dial always has a deadline, settles once, leaks
no socket and never downgrades silently (transport); a resume replays every
retained chunk after the acknowledged one, once and in order (buffer); reads are
cut without effect and no negotiation loops (parser); nobody is woken who is
watching, and caps hold across awaits up to what overlaps (push); the connection
that is cached is the one that is open (APNs); no nonce passes twice and no sign
count that was saved, and what was answered for survives a crash
after the save and a clean exit always (App Attest, shutdown); limits hold under
eviction and answering peers are kept (limits, heartbeat); what starts is what
was checked, and nobody reaches what the configuration does not grant
(configuration, upgrade, target policy).

## 2. Modules

| Module | Models |
|---|---|
| `SessionProxy` | the typed protocol: SessionIntegration, SessionManager and Session |
| `CapacityLease` | abstract: what the connection limits promise, without counters |
| `LegacyProxy` | extends `SessionProxy` by the legacy protocol and `closeSocket` |
| `MudTransport` | one `connectMudTransport` call |
| `CircularBuffer` | the ring buffer |
| `ReplayLog` | abstract: the log the ring stands for |
| `TelnetParser` | the parser and the MUD that feeds it |
| `PushScheduler` | the background push of one session |
| `Notifications` | trigger limits and the connection to APNs |
| `AppAttest` | challenges, key store and its file, crash and restart |
| `Lifecycle` | extends `AppAttest` by the drain |
| `Connections` | frame limits, failed secrets, heartbeat |
| `Addresses` | addresses, trusted peers, reserved networks |
| `Policy` | extends `Addresses`: configuration, credentials, frames, targets |
| `Admission` | extends `Policy`: startup, routes, upgrade, connection, frames and connects in order |
| `MC...` | constants for TLC |
| `SessionProxyProofs` | proofs of the session core, and of both protocols together |
| `MudTransportProofs` | proofs of the transport |
| `PushProofs`, `NotificationsProofs` | proofs of the scheduler, the trigger limits and the APNs connection |
| `LifecycleProofs` | proofs of App Attest and the drain |
| `OutputProofs` | proofs of the telnet parser and the replay buffer |
| `ConnectionsProofs` | proofs of the heartbeat, the frame limits and the failed secrets |
| `AdmissionProofs` | proofs of what is admitted and dialled |

Operators named after a definition with a suffix and introduced by a comment
"Mutant of ..." are plausible bugs. No specification uses them: putting one in
place of its original makes TLC report the property `PROJECT.json` pairs it with.
Type invariants that no run lists (`LTypeOK`, `PTypeOK`, ...) document the state and
are what the proofs start from.

### SessionProxy

One element of `Conn` is one connect frame and the Session it may become;
`phase` says where it is: `none`, `dns` (reserved, name being resolved),
`dialing` (in `sessions`, reserved), `live` (counted), `gone`. `tel` is the
telnet socket, `dying` once it is destroyed or has failed and `close` is still
to come. `clients`, `since`, `idle`, `dev` and `born` are the Session's fields;
`sockSess` and `devSess` are the two indexes; `est`, `pend`, `globalEst` and
`globalPend` the counters; `term` and `rmTimer` the armed cleanup timers;
`tracked` the sessions handed to background push. A connect frame is sent once,
which bounds the run; a socket is opened once and closed once.

A handler up to its first real `await` is one action, with the microtasks it
queues: the abort of a dial by `Session.close` runs the `catch` of
`dialSession` before anything else, so removing a dialling session also
releases its reservation in the same step. The one place where that order is
visible inside a handler is kept: `reservePendingDial` of an evicting connect
still sees the evicted dial's reservation (`ReserveRefused` reads `pend`, not
`PendWithout`). `handleDisconnect` closes the session before `removeSession`
reads its clients, so the socket index keeps left-over entries (`Disconnect`
does not use `SockSessWithout`). Time is reduced to the comparisons made with
it: `since` is `null`, `fresh` or `expired`, `idle` is the 24-hour timeout. The
address `unknown` is reserved for but never counted, as in `dialSession`.

`arbitrary` is the target mode; it is chosen in `Init` and never changes, so one
run covers the modes with and without DNS. A resume frame may carry another device
token than the session has (`ResumeTokens`); `handleResume` stores it and leaves the
device index alone, and the history variable `left` remembers, for each session, the
tokens it was taken from.

Abstracted: ids, tokens and their comparison (a resume names an existing session
and carries its token; any other is refused and changes nothing), target
policy (a refused target changes nothing), input, NAWS and activity tokens
(they write to the MUD socket or a field no property reads). The cleanup
interval removes one candidate per action; the code removes all of them in one
task, and since candidates age independently the same states are reached.

### LegacyProxy

`lphase` follows one legacy connect frame; `pendT`, `ts` and `counted` are the
socket's fields, `timers` its delayed `closeSocket` calls. A WebSocket `error`
precedes its `close`, and both call `closeSocket`. Frames may arrive after
`closeSocket` ran, because `terminate` is replaced by a graceful close when the
connection is accepted. Outside arbitrary mode a legacy connect reserves and counts
in one macrotask, so `LegacyConnectDial` shows only the count. A socket may send
several legacy connects, and one that follows a failed dial within its 500 ms writes
`legacyCountedIp` over: the history variable `lost` holds the connects that did so,
each with one count nobody will release. The `timeout` handler `initT` installs is
not modelled: nothing arms a timeout on that socket.

### MudTransport

Two sockets with the connector's listeners on or off (`heard`), two timers, the
promise's `outcome` and the kind of error it was rejected with. Callbacks and
socket constructors may throw. `close` follows `error` and `destroy()` in a
later task and is delivered even when nobody listens (`LateClose`, Node's part).

### CircularBuffer

Chunks are a sequence number and a size. The eviction loop is a minimum: the
fewest chunks from the head that make room; the test for a full ring follows it
as in `append`. `replayAfter` has the code's two ways to its first chunk, the index
and the scan, and skips empty slots as the code does. `ReplayLog` is the same
without ring, pointers and index.

### TelnetParser

The MUD sends text, commands, options and subnegotiations, one item or one payload
byte per action and encoded as RFC 854 asks; `Read(n)` hands the first `n` bytes on
the wire to `process`. The parser is a fold of one operator per state over these
bytes; a call carries on from what was delivered before (`Delivered`), so that the
text runs of successive calls are one sequence of bytes and echo transitions.
`meant` is what the MUD has said so far: what the player should see, its messages,
how often it has asked for each option, and the subnegotiation it is in. A command
inside a subnegotiation breaks it off (`BreakSub`), unless it is too long and being
discarded. The MUD is the external reference, and no part of it looks at the parser.
Contents of replies are their command and option.

### PushScheduler

Every awaited push is a job that remembers what the code read before the await
and which tracking object (`gen`) it will write to. The outcome of a push is
arbitrary and so is the time it takes: the request timer of the notification
manager counts silence, and the ack timeout is any integer the environment holds
(`ACTIVITY_PUSH_ACK_TIMEOUT_MS`), so a fallback can be decided on while another is in
flight. `FallbacksCapped` counts what is sent, in the history `wakes`, and allows
for that number (`overlap`); the run reaches states with more fallbacks than the
maximum. The count starts again when a client comes back and leaves (section 5).

### Notifications

`limit` is one session's entry of the limiter, `notes` the history of what
notified. A connection to APNs is `open`, `draining` after GOAWAY, `dead` when it
is closed and its events are still to come, `gone` after them. Whether a pattern
matches a text is left open. `req.setTimeout` counts ten seconds without activity, so
`RequestTimeout` may happen at any time or never, and that every push settles is
not claimed.

### AppAttest and Lifecycle

Verification has no real suspension, so a check and its update are one step (and so
is an upgrade in `Admission`);
reading the body of a registration is the one await. A save is two steps, the
staged file and the rename, and `Crash` may come between any two steps.
Certificates and signatures are the first check that fails (`Defects`). The history
`seen` follows the sign counts of a registration through crashes and restarts;
`Crash` takes out only the counts the file does not cover.
`Lifecycle` runs the drain around it: requests are taken until the listener
closes, upgrades are refused from the first step.

### Connections

The limiters' maps are sequences of entries, because the code evicts in insertion
order; the times kept for a key are a set of hits, numbered within a tick
(`Recorded`), since only how many fall in the window matters. `PongDelay` is how
long a peer that is there takes to answer a ping; `Interval + PongDelay <= Timeout`
is assumed. Time does not pass before a due timer has fired; a stall of the event
loop longer than the timeout is outside the model (see section 5).

### Addresses, Policy and Admission

An environment is a record of what its variables say, by the distinctions the
parser makes; a frame is a type and one field with a value by class (absent, null,
empty, zero, too large, another type); an address is its octets or groups.
`Policy` holds the pure decisions, `Admission` the order wsproxy.ts makes them in,
for one connection; a drain begins between any two events. An upgrade is one of them,
from its first check to the connection handler, since `verifyAssertion` does no I/O.
Checks that are made twice are modelled twice: the TLS files (by the parser and by the
listener), the client's address (by the connection and by each frame), a frame's
fields (by `validateTyped` and by the schemas). Whether an address is throttled is
left open here (`Connections` has the limiter).

## 3. Runs

| Run | Question | Result |
|---|---|---|
| `session` | counters, limits, indexes, stamps and push set of typed sessions in every target mode; they implement `CapacityLease` | holds, 755 000 states |
| `session_liveness` | abandoned sessions are reclaimed or resumed, ended ones forgotten | holds under fairness |
| `legacy` | both protocols on one set of counters, with and without DNS: exact up to counts a second connect writes over; a closed socket leaves nothing upstream | holds, 1 450 000 states |
| `mud_transport` | deadlines, leaks, downgrade, single settlement, termination | holds |
| `buffer_ring` | replay, and refinement of `ReplayLog` | holds, 2 900 states |
| `telnet_parser` | text, echo and messages arrive as meant however reads are cut; no option is answered more often than asked, six of them once | holds, 2 000 000 states |
| `push_scheduler` | the hourly cap of a tracking object across awaits, up to fallbacks in flight together; no fallback for a watching player | holds, 1 400 000 states |
| `notifications` | limits over a restarting and a sliding window; the shared connection | holds, 310 000 states |
| `lifecycle` | no replay but of counts a crash lost, durability, drain and deadline, over crashes and restarts | holds, 1 200 000 states |
| `connections` | frame limits with eviction, failed secrets, heartbeat | holds, 1 200 000 states |
| `admission` | from the environment to the dialled address | holds, 290 000 states |
| `doc_tls_required` | `INBOUND_TLS_MODE=required` never listens in plaintext | violated |

The last run states what runtime-config.ts says of itself; the counterexample is
a process started in a directory that has the certificate while the program's own
directory has none. `StartsAsConfigured` in `admission` covers every layout: a
listener that has TLS has a whole pair wherever the program is started, and `required`
gives it the checked pair where both directories are the same or the paths explicit.
Of what is served it says that a required App Attest is configured and an allowlist
names a target. For the ports of arbitrary mode the code makes no such check and
docs/configuration.md:74 says so: a list without a valid entry starts and refuses
everything.

Bounds.

- `session`: two sockets are enough for a resume from elsewhere and for competing
  for a limit of one or two; of the three connect frames two are on one socket, so
  that a socket can disconnect and connect again while another session waits. One
  address is `unknown`, which is reserved for and never counted. A device with a
  limit of one makes every second connect an eviction, and a resume may move a session
  to a second device. `TokensInFixedMode` gives tokens in fixed mode only, moves one
  session at a time, and then keeps the others to sessions with a token.
  `FrameSymmetry` permutes the two frames of one socket.
- `legacy`: one typed frame and three legacy frames, two of them on one socket, on two
  sockets of one address, limit two; `MaxTimers` caps the delayed closes of a socket
  at two, a third would only repeat an idempotent call.
- `buffer_ring`: three slots and five bytes, chunk sizes that hit either limit
  first, exactly fill the buffer, or exceed it; eight appends wrap it more than twice.
- `telnet_parser`: four items, with every option the parser knows, and payloads of up
  to two bytes against a limit of one: at the limit, above it and escaped across it,
  with text before or after. At most three bytes are unread when the MUD sends on.
- `push_scheduler`: five ticks with intervals of one and an hour of three, a maximum of
  one fallback, two outputs, and a client that leaves twice: enough for two fallbacks
  in flight together, a window that restarts and a push that outlives its tracking.
- `notifications`: a minute of two ticks and an hour of three in seven, three
  triggers, two of one type, five notifications, two requests on up to three connections.
- `lifecycle`: two processes, six ticks, a ceiling of two keys for three devices, two
  nonces, and files of an earlier process that tell registration from use.
- `connections`: three sockets of two addresses with room for two entries per map;
  the timeout is exactly interval plus pong delay. `OneLimitAtATime` keeps the three
  mechanisms, which share no state but the socket, from multiplying.
- `admission`: the settings vary in groups of what is checked together; addresses are
  both ends of every reserved range with their neighbours, in all three spellings.

Deadlock checking is off because every run's supply of frames, sockets, ticks or
requests is finite: once they are used up the model, unlike the proxy, has nothing
left to do.

Fairness. `session_liveness` assumes that timers fire, that a resolver answers,
that a dial ends (which `mud_transport` shows from its timers alone) and that
Node emits `close` for a destroyed socket. Nothing is assumed about clients, a
healthy MUD connection or the 24-hour timeout. `AbandonedIsReclaimed` is stated
for fixed and allowlist mode; section 5 says what happens otherwise.
`mud_transport` assumes only its two timers. No other run assumes fairness.

## 4. Proofs

The theorems hold for all sets of sockets, frames, keys, triggers, addresses and
answers and all limits, periods and bounds that satisfy the assumption of the
module: finiteness of what is counted, numbers that are natural numbers, and the
inequalities the text names. None of the properties is inductive as it stands;
each proof module begins with the invariant it needs.

**Session core** (`SessionProxyProofs`, from `ConstantsAssumption`).

- `TypeTheorem`: the session core stays well typed.
- `StampTheorem`, `PushTheorem`: grace stamps and the push set.
- `IndexesTheorem`: both indexes, in every mode and for any tokens. `removeSession`
  leaves entries behind in the socket index (a disconnect frame does), so the index is
  not exact; what a new session needs is that no old entry names it. That is
  `UnbornUnattached`, and with it `AttachInv` is inductive. Every action is, for
  attachments, an end of sessions (`EndStep`) or a move of one socket (`MoveStep`).
  The device index is exact but for the sessions whose token a resume replaced, which
  stay under their first one, removed or not; `LeftOwn` says that a session which does
  not exist yet is in no entry and has left no token; with it `DeviceInv` is
  inductive. The device limit is proved for the tokens no session has left, in fixed
  and allowlist mode, where no lookup separates the eviction from the creation
  (`NoLookups`).
- `CountersTheorem`, `CapacityTheorem`: the counters are exact and the limits
  bound what is held. `CapacityBounded` speaks of the set of held connections,
  while the code compares counters. The invariant `CapInv` adds that the counters
  equal the cardinalities (`CountersExact`) and that their sums are within the
  limits (`SumsBounded`). `StepKinds` shows that each of the twenty actions is,
  for capacity, one of four kinds of step: nothing, a removal of at most one
  session, a grant after an eviction, or the handoff from pending to
  established; each kind preserves `CapInv` by a lemma of its own.
- `LeaseTheorem`: `SessionProxy` implements `CapacityLease`, safety part: every
  step maps to a grant, an end or a stutter. `GuardSound` is the heart of it:
  what the guard of `reservePendingDial` reads is never below what is held.

**Both protocols** (also `SessionProxyProofs`, from `LegacyAssumption`).

- `SharedTheorem`, `TearDownTheorem`: the shared counters are exact, `maxPerIP` bounds
  the two protocols together, and a closing socket takes its legacy connects with it,
  for any number of legacy connects per socket. `legacyCountedIp` is one field: a
  second connect writes it over, and the theorem counts what is lost that way, and
  shows that nothing else is. `LegacyShape` ties the phase of a connect to the fields
  of its socket that `closeSocket` reads; without it a close could miss a dial. A
  connect loses a count at most when it is counted itself, hence once, and only of its
  own address (`LostOwn`). The typed steps are those of the session core, whose lemmas
  are reused.

**MUD transport** (`MudTransportProofs`).

- `DeadlineTheorem`, `LeakTheorem`, `DowngradeTheorem`, `SettleTheorem`: the
  transport in every mode. The four are inductive only together and with
  `Shape`, which says how timers, listeners and sockets fit in each phase.

**App Attest and shutdown** (`LifecycleProofs`, from `AttestAssumption` and
`LifecycleAssumption`; files of earlier processes are stores the proxy wrote,
and `Grace < Deadline`, which the configuration enforces).

- `ReplayTheorem`: a nonce passes once because no nonce in the store has passed and
  each was issued by this process (`Outstanding`); sign counts grow because none that
  was accepted exceeds the count of the key's entry, in memory (`CountsBounded`) or,
  between two processes, on file (`DownInv`). A count that a crash loses within the
  debounce is not covered, because the code accepts it again.
- `AckedTheorem`, `DrainedTheorem`: a staged file is the store and has no timer
  beside it (`SaveInv`), and a drained server has no body left to complete and no save
  pending (`DrainInv`).
- `DeadlineTheorem`: the exit by the deadline, from `DrainInv`.
- `KeysTheorem`: what an eviction or a restart may drop.

**Push** (`PushProofs`, from `PushAssumption`: the settings are integers).

- `FallbacksTheorem`: the ceiling is checked before an await and counted after it, so
  fallbacks in flight together all pass. The counter covers the ones that have
  settled, and counter and ones in flight together exceed the ceiling by at most their
  overlap (`Counting`); no order of the timeouts is assumed.
- `WatchingTheorem`: a session somebody watches is not tracked, and the timeout of
  one that is not tracked does nothing (`WatchedIsUntracked`).

**Notifications** (`NotificationsProofs`, from `NotificationAssumption`; an entry is
kept at least an hour and a minute).

- `LimitsTheorem`: the property speaks of all notifications, the code of one entry
  that is restarted and removed. `LimitInv` says what an entry (`Describes`) or its
  absence (`Forgotten`) tells about the past.
- `ConnectionTheorem`: the cached connection, from `ApnsInv`.

**Heartbeat and limits** (`ConnectionsProofs`, from `ConnectionsAssumption`:
`Interval + PongDelay <= Timeout`, and `AddrMax >= ConnMax`, which the configuration
enforces).

- `ReclaimTheorem`, `KeptTheorem`: a half-open peer is found in time and an answering
  one kept. `LastSweep` is when the timer last fired; after it nothing older than
  the timeout is watched (`Watched`), and an open peer was heard of since, or has an
  unanswered ping that is not overdue (`Answering`).
- `RatesTheorem`: the property counts frames of the past, the code the hits of an entry
  that is trimmed only when it is used and may have been evicted. `RateInv` relates the
  two for every cut-off time inside the window (`Charged`): an address never has more
  hits than frames let through, and no fewer while every sender's entry fits in the map.
  For a connection only the second half holds, since a frame the address refuses has
  already been charged to its connection; that is why `RefusalEarned` speaks of
  addresses. That no entry is evicted while the senders fit rests on
  `GoodMap`: a map holds each key once and only keys that were used.
- `ThrottleTheorem`: the same argument for failures (`FailureInv`), which a right secret
  clears on both sides.

**Replay buffer** (`OutputProofs`, from `BufferAssumption`).

- `LogTheorem`, `ReplayAfterTheorem`: from `RingInv`. Head, tail and count describe one
  queue, its sequence numbers grow, the index has an entry for every retained chunk and
  for nothing else, and `currentSize` is the sum of its bytes. The last is why
  an eviction by bytes frees enough, the index why the two ways of `replayAfter` agree,
  and the growing numbers why what follows the first newer chunk is newer too. The
  refinement shows that the ring's eviction is the log's: the fewest oldest chunks.

**Telnet parser** (`OutputProofs`, from `TelnetAssumption`).

- `ReadTheorem`, `NegotiationTheorem`: for every stream, every cut and every limit.
  Both speak of what the MUD meant; between two reads the parser lags behind it by
  whatever is on the wire, so nothing can be said of its fields as they are.
  `StreamInv` speaks of the parser as it will be once it has read the wire: then it
  has shown what was meant, is in the text or inside the subnegotiation the MUD is in,
  and has collected its payload or is discarding it (`Agrees`). A read leaves this
  value alone, because a call on two pieces is a call on the first and then on the
  second (`RunConcat`) and because where text is flushed makes no difference
  (`RunStepped`); each action of the MUD appends one sequence, which the parser reads
  in its known state (one lemma per action). Each option is answered at most as often
  as it was asked for, and the six with a flag of their own at most once; CHARSET,
  TTYPE and unknown options are answered each time.
- `ParserTypes`: the fields are well typed, and the bytes kept of a subnegotiation
  never exceed `maxSubnegotiationBytes`.

The sums and folds of these two need induction over data, which the library's induction
theorems do not provide here; `Least` gives it instead: where a fact about prefixes
fails it fails at a shortest one, which the definition of the recursive function refutes.

**Admission** (`AdmissionProofs`, from `AdmissionAssumption`: settings have one of
their values, addresses are quads or hextets).

- `StartTheorem`, `CredentialTheorem`, `FrameTheorem`: from
  `AdmissionInv`, which says of each stage what has been checked by then: the
  configuration is one that parsed, a connection in arbitrary mode has shown a
  credential. `StartTheorem` promises the checked pair for a program in its own
  directory or with explicit paths; elsewhere `doc_tls_required` is the counterexample.
- `ClientTheorem`: for forwarded chains of every length; the rightmost hop that is no
  proxy is also the rightmost after hops are put in front (`ForgedHops`).
- `PublicTheorem`: for every address and every list of answers. Its lemma
  `ReservedIsNotPublic` shows that the prefixes of target-policy.ts, matched bit by
  bit, are exactly the ranges `Public` excludes, also inside the IPv6 forms that
  carry an IPv4 address.

Only model-checked:

- everything under fairness (`AbandonedIsReclaimed`, `EndedIsForgotten`, `DialEnds`),
  since liveness and `ENABLED` are beyond the prover;
- `TlsRequiredMeansTls`, which is violated.

Every invariant, action property and refinement a passing run checks is also proved.

## 5. Differences between documentation and code, without a run

- docs/protocols.md:388 says a connect above the device limit is answered with
  `rate_limited`; `enforceConnectionLimits` evicts the device's oldest session
  and grants the connect (`Evictions`).
- docs/configuration.md:145 says the device limit bounds the concurrent sessions
  of a device; a resume stores a new token without touching the device index, so
  sessions acquired by resume are not counted (`Resume` leaves `devSess` alone).
  `DeviceIndexExact` is therefore stated up to the sessions that have `left` a token.
- docs/session-integration-guide.md:275 says "24 hours of inactivity"; the time is
  counted from the last attach, so an attached, active session is removed too
  (`CleanupInactive` has no condition on clients).
- circular-buffer.ts:196 says `hasSequence` tells whether a number is still in
  the buffer; it compares with the oldest and newest, and a refused oversized
  chunk leaves a hole between them. The proxy does not call it.
- docs/mud-proxy-guide.md:188 and session-integration.ts:517 promise one connect per
  socket; a socket is attached after DNS, so in arbitrary mode two connects sent
  while the first name is being resolved both dial (`OneConnectPerSocket`).
- docs/configuration.md:148 gives a session without clients its grace period; a
  WebSocket that closes during DNS is attached afterwards and never detached, so
  the grace does not start (`GraceIsRunning`, in arbitrary mode).
- docs/mud-proxy-guide.md:186 says a legacy count is released when the socket closes; a
  second connect within 500 ms of a failed dial overwrites `legacyCountedIp` and
  one count stays until restart (`ReleasedOnClose` fails with two legacy connects on one
  socket; `lost` in `SharedCountersExact`).
- docs/mud-proxy-guide.md:182 says the MUD connection of a closing WebSocket is torn
  down; a socket that uses both protocols is only detached from its session.
- docs/configuration.md:385 "Minimum gap between silent pushes to a device, 20
  minutes."; the time is written after the await and belongs to the tracking
  object, so two outputs in flight, a client that comes and goes, or a fallback
  come closer together.
- docs/configuration.md:389 "Cap on fallback silent pushes per device per hour"; the
  counter belongs to the tracking object, so `trackSession`
  (background-push-scheduler.ts:98) starts it at zero whenever the player has been back,
  and it is incremented after the await, so fallbacks in flight together pass it
  (`overlap`). Two sessions of a device have a counter each.
- trigger-matcher.ts:10 "1 per trigger type per minute"; the limit is per trigger
  id (`TypeSpacing`). A custom trigger's label never reaches the title.
- notification-manager.ts:9 "Error handling with retry"; `queueNotification` has no
  caller, so nothing is retried.
- The parser takes a DONT or WONT for GMCP as the start of GMCP and sends the client
  information; `sendNAWS` (session.ts:348) does not double a byte of 255.
- app-attest.ts:1370 calls the backfill of unused keys a "bounded, one-time cost"; it
  is not saved, so after a crash the time to live of such a key starts again. A crash
  within the debounce loses sign counts, and steady traffic postpones the save for ever.
- wsproxy.ts:3277 flushes "once nothing can still change it"; when the listener's
  timer bails out, a registration may still complete between the flush and the exit
  (`DrainedExitKeepsKeys` is stated for a drained listener).
- client-protocol.ts:433 "which validateTyped should have caught first": control
  characters in a type, and some types of `appToken` and `debug`, are refused by the
  decoder alone. JSON after a leading space goes to the MUD as text.
- `requestPeer` (wsproxy.ts:1292) logs the raw forwarded chain, while the limits use
  the resolved address.
- A full limiter evicts by insertion, not by last use; `shouldNotify` evicts the
  oldest notice even when its key is already there. An event-loop stall longer than
  the heartbeat timeout terminates peers whose pongs are waiting to be read.

## 6. Not modelled, and the plan

Not modelled because no property depends on it or it changes no state: logging,
redaction and error texts, HTML and page contents, build, lint and deployment
tools, certificates, CBOR and signatures, JWT and payload texts, the telnet
negotiation `sendClient` does for the legacy protocol and its character sets.
Left out of modelled components: the frames in flight to each WebSocket (ordered
by WebSocket itself), `clearAll` and `clearSession`, the retry queue nothing calls,
`shouldNotify`, and the body of the APNs test route. `PROJECT.json` says for each
component what is missing.

What would come next: the legacy protocol's own telnet negotiation (`sendClient`) as a
second client of the MUD's side of `TelnetParser`, and the order of frames to each
WebSocket between `CircularBuffer` and a resume.
