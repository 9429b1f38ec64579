------------------------------- MODULE Policy -------------------------------
(***************************************************************************)
(* What the proxy decides from data alone: which environments it starts    *)
(* with (runtime-config.ts), who may open a connection (wsproxy-utils.ts), *)
(* what a client frame is (client-protocol.ts) and which targets may be    *)
(* dialled (target-policy.ts).                                             *)
(***************************************************************************)
EXTENDS Addresses

-----------------------------------------------------------------------------
(* Configuration.  An environment is a record of what its variables say.    *)
(* Directories hold a certificate, a key, both or neither: "app" is where   *)
(* the program lies, "parent" the one above it, "cwd" a third one the       *)
(* process may run in, "named" the one explicit paths point to.             *)
CwdOf(env) == CASE env.layout = "same" -> "app"
                [] env.layout = "above" -> "parent"
                [] OTHER -> "cwd"
Pair(env, dir) == dir \in env.certs /\ dir \in env.keys

(* ALLOWED_TARGETS and ARBITRARY_ALLOWED_PORTS are lists: "none" is an empty *)
(* one, "invalid" one without an entry that parses, "valid" one with some.   *)

(* Where parseRuntimeConfig finds the certificate and the key; it is called *)
(* with the working directory.                                              *)
CheckedDir(env) ==
  IF env.explicitPaths THEN "named"
  ELSE IF /\ CwdOf(env) = "app" /\ env.dist
          /\ "app" \notin env.certs \union env.keys /\ Pair(env, "parent")
       THEN "parent" ELSE CwdOf(env)

(* Mutant of ListenerDir: a dist directory's parent is not searched. *)
ListenerDirHere(env) ==
  LET here == IF env.explicitPaths THEN "named" ELSE "app"
  IN  IF env.tls = "required" /\ Pair(env, here) THEN here ELSE None

(* resolveTlsSettings, called with the directory of the program: where the  *)
(* listener takes its pair from, or None for a plaintext listener.          *)
ListenerDir(env) ==
  LET here == IF env.explicitPaths THEN "named" ELSE "app"
  IN  CASE env.tls = "off" -> None
        [] env.tls # "off" /\ Pair(env, here) -> here
        [] env.tls # "off" /\ ~Pair(env, here) /\ ~env.explicitPaths /\ env.dist
             /\ Pair(env, "parent") -> "parent"
        [] OTHER -> None

AttestEnabled(env) == env.bundle /\ env.team

(* What parseRuntimeConfig refuses, by what it is about: values its readers *)
(* do not accept (or limits that are not positive), variables that are no   *)
(* more, who may talk to it, optional features, the target and the secret,  *)
(* the listener, times and rates that contradict each other, and            *)
(* combinations that let nobody in, or anybody.                             *)
Broken(rules) == {r \in DOMAIN rules : rules[r]}

ParseErrors(env) == Broken([unparseable |-> env.garbled])

RetiredErrors(env) == Broken([retired |-> env.retired])

PeerErrors(env) ==
  Broken([origins |-> env.origins = "malformed",
          proxies |-> env.proxies = "malformed"])

FeatureErrors(env) ==
  Broken([apns   |-> env.apns = "part",
          attest |-> env.bundle # env.team,
          store  |-> AttestEnabled(env) /\ ~env.writable])

TargetErrors(env) ==
  Broken([targets |-> env.target = "allowlist" /\ env.listed # "valid",
          ports   |-> env.target = "arbitrary" /\ env.ports = "none",
          secret  |-> env.auth = "shared-secret" /\ env.secret # "long"])

ListenerErrors(env) ==
  Broken([certificate |-> env.tls = "required" /\ CheckedDir(env) \notin env.certs,
          key         |-> env.tls = "required" /\ CheckedDir(env) \notin env.keys,
          plaintext   |-> env.tls = "off" /\ env.bind # "loopback" /\ ~env.acknowledged])

TimingErrors(env) ==
  Broken([heartbeat |-> env.interval <= 0 \/ env.timeout <= env.interval,
          rates     |-> env.perConn <= 0 \/ env.perAddr < env.perConn,
          shutdown  |-> env.grace <= 0 \/ env.deadline <= env.grace])

AccessErrors(env) ==
  Broken([appAuth   |-> env.requireApp /\ ~AttestEnabled(env),
          openRelay |-> env.target = "arbitrary" /\ env.auth = "none" /\ ~env.requireApp])

ParsedErrors(env) ==
  UNION {ParseErrors(env), RetiredErrors(env), PeerErrors(env), FeatureErrors(env),
         TargetErrors(env), ListenerErrors(env), TimingErrors(env), AccessErrors(env)}

(* Mutant of ConfigErrors: client-named targets need no authentication. *)
ConfigErrorsOpenRelay(env) == ParsedErrors(env) \ {"openRelay"}

(* getRuntimeConfig: any error stops the start; without one, the certificate *)
(* and key are read and must match.                                          *)
ConfigErrors(env) ==
  IF ParsedErrors(env) = {} /\ env.tls = "required" /\ ~env.matching THEN {"pair"}
  ELSE ParsedErrors(env)

(* Constructors that throw on what they are given: HeartbeatMonitor, whose  *)
(* rule is the one parseRuntimeConfig has of its own.                       *)
MonitorThrows(env) == env.interval <= 0 \/ env.timeout <= env.interval

-----------------------------------------------------------------------------
(* Upgrades. *)

(* isOriginAllowed: no list allows every origin. *)
IsOriginAllowed(origin, config) ==
  \/ config.origins = "none"
  \/ origin = "absent" /\ config.allowMissing
  \/ origin = "listed"

(* authorizeSharedSecret: one bearer header decides; the query counts only  *)
(* without a header, and if the operator allows it.                         *)
AuthorizeSharedSecret(request, config) ==
  \/ config.auth = "none"
  \/ request.authorization = "right"
  \/ request.authorization = "absent" /\ config.allowQuery /\ request.query = "right"

(* isDiagnosticRequestAuthorized and authorizeApnsDebugRequest *)
DiagnosticAuthorized(request, config) ==
  config.diagnostics /\ config.adminToken /\ request.adminToken = "right"
DebugAuthorized(request, config) ==
  config.testSecret /\ DiagnosticAuthorized(request, config) /\ request.testSecret = "right"

(* The upgrade handler: the status it refuses with, or 101.  A wrong secret *)
(* from an address with too many of them gets a status of its own           *)
(* (failedAuthLimiter, which is in Connections).                            *)
UpgradeStatus(open, throttled, request, config) ==
  CASE ~open -> 503
    [] open /\ ~IsOriginAllowed(request.origin, config) -> 403
    [] open /\ IsOriginAllowed(request.origin, config)
         /\ ~AuthorizeSharedSecret(request, config) -> IF throttled THEN 429 ELSE 401
    [] open /\ IsOriginAllowed(request.origin, config) /\ AuthorizeSharedSecret(request, config)
         /\ config.requireApp /\ request.assertion # "verified" -> 401
    [] OTHER -> 101

(* The HTTP routes, with what the handlers behind them answer when all is well. *)
HttpStatus(open, route, request, config) ==
  CASE route = "health" -> IF open THEN 200 ELSE 503
    [] route = "diagnostic" -> IF DiagnosticAuthorized(request, config) THEN 200 ELSE 404
    [] route = "challenge" -> IF config.attest THEN 200 ELSE 404
    [] route = "debug" ->
         IF ~config.apns \/ ~config.testSecret \/ ~DiagnosticAuthorized(request, config) THEN 404
         ELSE IF DebugAuthorized(request, config) THEN 200 ELSE 401
    [] OTHER -> 404

-----------------------------------------------------------------------------
(* Client frames.  A value of a field is its class: text, blank text, an    *)
(* integer from 1 to 65535, zero, a larger integer, a fraction, a boolean,  *)
(* null, or no field at all.                                                *)
Values == {"text", "blank", "int", "zero", "big", "frac", "bool", "null", "absent"}
Texts == {"text", "blank"}
Numbers == {"int", "zero", "big", "frac"}
Missing == {"null", "absent"}

(* Mutant of FieldChecks: any number is a width. *)
FieldChecksAnyWidth(type) ==
  CASE type = "connect" -> [host |-> {"text"}, port |-> {"int"}, width |-> {"int"} \union Missing,
                            deviceToken |-> {"text"} \union Missing]
    [] type = "resume" -> [sessionId |-> {"text"}, token |-> {"text"},
                           lastSeq |-> {"int", "zero", "big"}]
    [] type = "activityToken" -> [token |-> {"text"}]
    [] type = "syncAck" -> [sessionId |-> {"text"}, lastSeq |-> {"int", "zero", "big"}]
    [] type = "input" -> [text |-> Texts]
    [] type = "naws" -> [width |-> Numbers, height |-> Numbers]
    [] type = "disconnect" -> [none |-> Values]

(* TYPED_FIELD_CHECKS; a height is checked as a width is. *)
FieldChecks(type) ==
  CASE type = "connect" -> [host |-> {"text"}, port |-> {"int"}, width |-> {"int"} \union Missing,
                            deviceToken |-> {"text"} \union Missing]
    [] type = "resume" -> [sessionId |-> {"text"}, token |-> {"text"},
                           lastSeq |-> {"int", "zero", "big"}]
    [] type = "activityToken" -> [token |-> {"text"}]
    [] type = "syncAck" -> [sessionId |-> {"text"}, lastSeq |-> {"int", "zero", "big"}]
    [] type = "input" -> [text |-> Texts]
    [] type = "naws" -> [width |-> {"int"}, height |-> {"int"}]
    [] type = "disconnect" -> [none |-> Values]

(* TYPED_SCHEMAS, which decode what passed. *)
Decoded(type) ==
  CASE type = "connect" -> [host |-> Texts, port |-> Numbers, width |-> Numbers \union Missing,
                            deviceToken |-> Texts \union Missing, appToken |-> Texts \union Missing,
                            debug |-> {"bool"} \union Missing]
    [] type = "resume" -> [sessionId |-> Texts, token |-> Texts, lastSeq |-> Numbers,
                           deviceToken |-> Texts \union Missing, appToken |-> Texts \union Missing]
    [] type = "activityToken" -> [token |-> Texts]
    [] type = "syncAck" -> [sessionId |-> Texts, lastSeq |-> Numbers]
    [] type = "input" -> [text |-> Texts]
    [] type = "naws" -> [width |-> Numbers, height |-> Numbers]
    [] type = "disconnect" -> [none |-> Values]

KnownTypes == {"connect", "resume", "activityToken", "syncAck", "input", "naws", "disconnect"}

ValueOf(frame, field) == IF frame.field = field THEN frame.value ELSE "good"
Satisfies(frame, table) ==
  \A f \in DOMAIN table : ValueOf(frame, f) = "good" \/ ValueOf(frame, f) \in table[f]

(* validateLegacy: a frame without a type asks to connect, or is input. *)
LegacyOutcome(frame) ==
  CASE frame.connect = "absent" -> "forward"
    [] frame.connect = "falsy" -> "invalid"
    [] frame.connect = "truthy" ->
         IF Satisfies(frame, [host |-> {"text"} \union Missing, port |-> {"int"} \union Missing])
         THEN "legacy" ELSE "invalid"

(* srv.parse and parseNewMessage.  A frame differs from a good one of its   *)
(* type in one field.  safeTypeName drops control characters, so a type     *)
(* spelled with some ("dirty") is looked up without and decoded with them.  *)
Outcome(frame) ==
  CASE ~frame.brace \/ ~frame.json -> "forward"
    [] frame.brace /\ frame.json /\ frame.type = "absent" ->
         LegacyOutcome(frame)
    [] frame.brace /\ frame.json /\ frame.type \in KnownTypes ->
         IF /\ Satisfies(frame, FieldChecks(frame.type))
            /\ Satisfies(frame, Decoded(frame.type)) /\ ~frame.dirty
         THEN "handled" ELSE "invalid"
    [] OTHER -> "invalid"

-----------------------------------------------------------------------------
(* Targets. *)

(* portIsAllowed: a port alone is a range of one; low > high allows nothing. *)
PortIsAllowed(port, ranges) == \E r \in ranges : r[1] <= port /\ port <= r[2]

(* validateTarget, on a host and port that are normalized. *)
ValidateTarget(target, config) ==
  CASE config.target = "fixed" -> target = config.default
    [] config.target = "allowlist" -> target \in config.allowed
    [] config.target = "arbitrary" -> PortIsAllowed(target.port, config.ports)

(* Mutant of ResolveTarget: one public answer is enough. *)
ResolveTargetAny(host, answers) ==
  LET public == SelectSeq(answers, LAMBDA a : ~IsReservedAddress(a))
  IN  IF host.form # "name" THEN (IF IsReservedAddress(host) THEN None ELSE host)
      ELSE IF public = <<>> THEN None ELSE Head(answers)

(* resolveTargetAddress: a literal is its own answer; of the answers for a  *)
(* name the first is dialled, if none is reserved.                          *)
ResolveTarget(host, answers) ==
  LET found == IF host.form = "name" THEN answers ELSE <<NormalizeAddress(host)>>
  IN  IF found = <<>> \/ \E i \in DOMAIN found : IsReservedAddress(found[i])
      THEN None ELSE Head(found)
=============================================================================
