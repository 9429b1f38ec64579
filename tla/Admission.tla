----------------------------- MODULE Admission -----------------------------
(***************************************************************************)
(* The front of the proxy, from the environment it is started in to the    *)
(* address it dials: parse the configuration, listen, upgrade a client,    *)
(* read its frames and decide its connects.  The decisions are those of    *)
(* Policy; here they happen in the order wsproxy.ts makes them.            *)
(*                                                                         *)
(* One connection at a time: what is admitted does not depend on the other *)
(* ones (their number and their traffic are Connections and SessionProxy). *)
(***************************************************************************)
EXTENDS Policy, FiniteSets

CONSTANTS
  Envs,            \* the environments the program is started in
  TrustLists,      \* what each setting of TRUSTED_PROXY_CIDRS trusts
  Requests,        \* upgrade and HTTP requests
  Routes,
  Frames,          \* what a client sends
  Targets,         \* the host and port of a connect
  Answers,         \* what DNS answers for a name
  DefaultTarget,
  AllowedTargets, PortRanges   \* what lists of targets and of ports with a valid entry say

(* What parseRuntimeConfig's readers return, what a request or a resolver   *)
(* hands over, and a marker that is none of it.                             *)
ASSUME AdmissionAssumption ==
  /\ \A e \in Envs : /\ e.tls \in {"off", "required"} /\ e.auth \in {"none", "shared-secret"}
                     /\ e.target \in {"fixed", "allowlist", "arbitrary"}
  /\ \A r \in Requests : /\ r.peer \in Address
                         /\ r.headers \in [realIp : Address \union {None}, hops : Seq(Address)]
  /\ \A t \in Targets : t.host \in Address /\ t.port \in Nat
  /\ Answers \subseteq Seq(Address) /\ PortRanges \subseteq Nat \X Nat /\ AllowedTargets # {}
  /\ None \notin Address

VARIABLES
  stage,       \* "down", "aborted", "started" (configuration parsed), "failed", "up"
  env,         \* the environment, until the server listens
  listener,    \* the directory the listener has its certificate from, or None
  config,      \* what the handlers keep of the environment
  open,        \* srv.open
  conn,        \* the accepted connection, or None
  event        \* the last decision, with what it was made about

front == <<stage, env, listener, config>>
avars == <<stage, env, listener, config, open, conn, event>>

Quiet == [kind |-> "quiet"]

AdmissionInit ==
  /\ stage = "down" /\ env = None /\ listener = None /\ config = None
  /\ open = TRUE /\ conn = None /\ event = Quiet

-----------------------------------------------------------------------------
(* What the handlers keep of an environment. *)
ConfigOf(e) ==
  [target |-> e.target, auth |-> e.auth, requireApp |-> e.requireApp, origins |-> e.origins,
   allowMissing |-> e.allowMissing, allowQuery |-> e.allowQuery,
   diagnostics |-> e.diagnostics, adminToken |-> e.adminToken, testSecret |-> e.testSecret,
   apns |-> e.apns = "all", attest |-> AttestEnabled(e), trust |-> e.proxies,
   default |-> DefaultTarget,
   allowed |-> IF e.listed = "valid" THEN AllowedTargets ELSE {},
   ports |-> IF e.ports = "valid" THEN PortRanges ELSE {}]

(* The module is loaded: getRuntimeConfig parses, or the process exits.  A  *)
(* parsed configuration reaches init, which opens the listener.             *)
Boot(e) ==
  /\ stage = "down"
  /\ env' = e
  /\ stage' = IF ConfigErrors(e) = {} THEN "started" ELSE "aborted"
  /\ listener' = IF ConfigErrors(e) = {} THEN ListenerDir(e) ELSE None
  /\ UNCHANGED <<config, open, conn, event>>

(* The rest of init, which ends the process if a constructor throws. *)
Serve ==
  /\ stage = "started"
  /\ stage' = IF env.heartbeat /\ MonitorThrows(env) THEN "failed" ELSE "up"
  /\ config' = ConfigOf(env)
  /\ env' = None /\ listener' = None
  /\ UNCHANGED <<open, conn, event>>

(* srv.die: from here on nothing new is let in. *)
Drain ==
  /\ stage = "up" /\ open
  /\ open' = FALSE
  /\ UNCHANGED <<front, conn, event>>

-----------------------------------------------------------------------------
(* The credential a request shows: a secret or an App Attest assertion. *)
Proven(request) ==
  \/ config.auth = "shared-secret" /\ AuthorizeSharedSecret(request, config)
  \/ config.requireApp /\ request.assertion = "verified"

ClientOf(peer, headers) == ResolveClientAddress(peer, headers, TrustLists[config.trust])

(* The connection handler repeats two of the upgrade's checks. *)
StillAllowed(request) == open /\ IsOriginAllowed(request.origin, config)

(* The connection it accepts.  The address its frames are charged to is     *)
(* resolved anew by the message handler, from the accepted one.             *)
Connection(request) ==
  LET client == ClientOf(request.peer, request.headers)
  IN  [proven |-> Proven(request), client |-> client,
       charged |-> ClientOf(client, request.headers)]

(* The upgrade handler: refused, or handed to the connection handler.  One  *)
(* step: verifyAssertion, which it awaits, does no I/O, so no event of the  *)
(* process is served in between.                                            *)
Upgrade(request) ==
  /\ stage = "up" /\ conn = None /\ event = Quiet
  /\ \E throttled \in BOOLEAN :
       LET status == UpgradeStatus(open, throttled, request, config)
       IN  IF status = 101 /\ StillAllowed(request)
           THEN /\ conn' = Connection(request)
                /\ event' = [kind |-> "accepted", request |-> request]
           ELSE conn' = None /\ event' = [kind |-> "refused", status |-> status]
  /\ UNCHANGED <<front, open>>

(* A handler has returned. *)
Done ==
  /\ event # Quiet /\ event' = Quiet
  /\ UNCHANGED <<front, open, conn>>

Close ==
  /\ conn # None /\ event = Quiet /\ conn' = None /\ event' = Quiet
  /\ UNCHANGED <<front, open>>

Http(route, request) ==
  /\ stage = "up" /\ conn = None /\ event = Quiet
  /\ event' = [kind |-> "http", route |-> route, request |-> request,
               status |-> HttpStatus(open, route, request, config)]
  /\ UNCHANGED <<front, open, conn>>

(* The message handler, on a frame its limits let through. *)
Frame(frame) ==
  /\ conn # None /\ event = Quiet
  /\ event' = [kind |-> "frame", frame |-> frame, outcome |-> Outcome(frame)]
  /\ UNCHANGED <<front, open, conn>>

(* authorizeConnect, for either wire protocol: the address dialled, if any. *)
AuthorizeConnect(target, answers) ==
  IF ~ValidateTarget(target, config) THEN None
  ELSE IF config.target = "arbitrary" THEN ResolveTarget(target.host, answers)
       ELSE target.host

Connect(target, answers) ==
  /\ conn # None /\ event = Quiet
  /\ event' = [kind |-> "connect", target |-> target, answers |-> answers,
               dialled |-> AuthorizeConnect(target, answers)]
  /\ UNCHANGED <<front, open, conn>>

AdmissionNext ==
  \/ \E e \in Envs : Boot(e)
  \/ Serve
  \/ Drain
  \/ \E request \in Requests : Upgrade(request)
  \/ Close
  \/ Done
  \/ \E route \in Routes, request \in Requests : Http(route, request)
  \/ \E frame \in Frames : Frame(frame)
  \/ \E target \in Targets :
       \E answers \in IF target.host = Name THEN Answers ELSE {<<>>} : Connect(target, answers)

AdmissionSpec == AdmissionInit /\ [][AdmissionNext]_avars

-----------------------------------------------------------------------------
(* The listener is the one the configuration was checked for.  A plaintext  *)
(* one that was asked for is on the loopback or acknowledged, an encrypted  *)
(* one has a whole pair, and when the program runs where it lies, or its    *)
(* paths are explicit, INBOUND_TLS_MODE=required gives it the very pair     *)
(* parseRuntimeConfig found to match (parseRuntimeConfig and                *)
(* resolveTlsSettings search separately; run elsewhere they disagree, which *)
(* is TlsRequiredMeansTls).                                                 *)
ListenerAsConfigured ==
  stage = "started" =>
    /\ env.tls = "off" => listener = None /\ (env.bind = "loopback" \/ env.acknowledged)
    /\ listener # None => Pair(env, listener)
    /\ env.tls = "required" /\ (env.layout = "same" \/ env.explicitPaths) =>
         listener = CheckedDir(env) /\ env.matching

(* "Missing certificates are fatal under `required` however the mode was    *)
(* arrived at" (getRuntimeConfig): a proxy that starts under                *)
(* INBOUND_TLS_MODE=required listens with TLS, wherever it is run.          *)
TlsRequiredMeansTls ==
  stage = "started" /\ env.tls = "required" => listener # None

(* What is served can be used, as far as parseRuntimeConfig sees to it: a   *)
(* required App Attest is configured, an allowlist names some target        *)
(* (validateTarget reads it with the parser the check used), and no         *)
(* constructor in init throws.  There is no such promise for the ports of   *)
(* TARGET_MODE=arbitrary: a list without a valid entry starts, and refuses  *)
(* every target, as docs/configuration.md says.                             *)
ParsedServes ==
  /\ stage # "failed"
  /\ stage = "up" => /\ config.requireApp => config.attest
                     /\ config.target = "allowlist" =>
                          \E target \in config.allowed : ValidateTarget(target, config)

(* What init sets up is what parseRuntimeConfig checked: the listener, and  *)
(* handlers that can serve.                                                 *)
StartsAsConfigured == ListenerAsConfigured /\ ParsedServes

(* Who a connection is: for a list of proxies, hops a client invents in     *)
(* front of the chain do not change the address it is known by, and every   *)
(* frame is charged to the address the connection was accepted for (the     *)
(* connection handler and the message handler resolve it separately).       *)
ClientCannotForge ==
  LET trust == TrustLists[config.trust]
      chain == event.request.headers
  IN  /\ conn # None => conn.charged = conn.client
      /\ /\ event.kind = "accepted" /\ ~trust.all
         /\ \E i \in DOMAIN chain.hops : ~IsTrustedPeer(chain.hops[i], trust)
         => \A forged \in {r.headers.hops : r \in Requests} :
               conn.client = ClientOf(event.request.peer, [chain EXCEPT !.hops = forged \o @])

(* A client that names its own target has shown a credential, whatever      *)
(* combination of target mode, secret and App Attest the operator chose     *)
(* (ConfigErrors, the upgrade handler and authorizeConnect together).       *)
NoOpenRelay ==
  event.kind = "connect" /\ event.dialled # None =>
    event.target \in AllowedTargets \union {DefaultTarget} \/ conn.proven

(* The addresses no client may reach, as ranges: a reference for            *)
(* isReservedAddress, which matches prefixes.                               *)
High(o) == o[1] * 256 + o[2]
PublicV4(o) ==
  /\ \A r \in {<<0, 255>>, <<2560, 2815>>, <<25664, 25727>>, <<32512, 32767>>, <<43518, 43518>>,
              <<44048, 44063>>, <<49320, 49320>>, <<50706, 50707>>, <<57344, 65535>>} :
       High(o) < r[1] \/ High(o) > r[2]
  /\ ~(High(o) = 49152 /\ o[3] \in {0, 2})
Public(a) ==
  CASE a.form = "name" -> FALSE
    [] a.form \in {"v4", "mapped"} -> PublicV4(a.octets)
    [] OTHER -> LET g == a.groups
                    zeros(n) == \A i \in 1..n : g[i] = 0
                IN  IF zeros(5) /\ g[6] = 65535
                    THEN PublicV4(<<g[7] \div 256, g[7] % 256, g[8] \div 256, g[8] % 256>>)
                    ELSE /\ ~(zeros(7) /\ g[8] <= 1)
                         /\ g[1] \notin 64512..65023
                         /\ g[1] \notin 65152..65215
                         /\ g[1] < 65280

(* In arbitrary mode a connect is dialled exactly when its port is allowed  *)
(* and every address it could mean is public, and then to one of them; a    *)
(* name with one private answer among public ones is refused                *)
(* (resolveTargetAddress).                                                  *)
DialledIsPublic ==
  event.kind = "connect" /\ config.target = "arbitrary" =>
    LET meant == IF event.target.host.form = "name" THEN ToSet(event.answers)
                 ELSE {NormalizeAddress(event.target.host)}
    IN  IF /\ \E r \in config.ports : event.target.port \in r[1]..r[2]
           /\ meant # {} /\ \A a \in meant : Public(a)
        THEN event.dialled \in meant
        ELSE event.dialled = None

(* What a handler is given is what it needs: a size that fits the two bytes *)
(* of NAWS, a sequence number that is an integer, a port that can be        *)
(* dialled, ids that are not blank; and a frame that names a type never     *)
(* reaches the MUD as text (validateTyped and the schemas check apart).     *)
DispatchedIsUsable ==
  event.kind = "frame" =>
    LET f == event.frame
        given(name) == IF f.field = name THEN f.value ELSE "good"
    IN  /\ event.outcome = "handled" =>
             /\ f.type = "naws" => \A n \in {"width", "height"} : given(n) \in {"good", "int"}
             /\ f.type \in {"resume", "syncAck"} =>
                  /\ given("lastSeq") \in {"good", "int", "zero", "big"}
                  /\ given("sessionId") \in {"good", "text"}
             /\ f.type = "connect" => given("port") \in {"good", "int"} /\ given("host") \in {"good", "text"}
        /\ event.outcome = "forward" => ~(f.brace /\ f.json /\ f.type # "absent")

(* One bearer header decides: a wrong one is not rescued by a right secret  *)
(* in the query, and a diagnostic route answers no one without its token,   *)
(* and no one at all unless diagnostics are enabled                         *)
(* (authorizeSharedSecret, isDiagnosticRequestAuthorized).                  *)
HeaderDecides ==
  /\ event.kind = "accepted" /\ config.auth = "shared-secret" =>
       /\ event.request.authorization # "wrong"
       /\ event.request.authorization = "absent" =>
            config.allowQuery /\ event.request.query = "right"
  /\ event.kind = "http" /\ event.route \in {"debug", "diagnostic"} /\ event.status = 200 =>
       config.diagnostics /\ event.request.adminToken = "right"

(* Nothing is had without the credential its configuration asks for: not a  *)
(* connection, a target of one's own choice, or a diagnostic page.          *)
CredentialsDecide == HeaderDecides /\ NoOpenRelay
=============================================================================
