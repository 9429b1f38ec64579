----------------------------- MODULE MCAdmission -----------------------------
(* Instances of Admission: environments in groups that vary what is checked *)
(* together, addresses at the ends of every reserved range.                 *)
EXTENDS Admission

Dirs == {"app", "parent", "cwd", "named"}
Base ==
  [garbled |-> FALSE, retired |-> FALSE, target |-> "arbitrary", listed |-> "valid", ports |-> "valid",
   auth |-> "shared-secret", secret |-> "long", requireApp |-> FALSE, tls |-> "off",
   layout |-> "same", explicitPaths |-> FALSE, dist |-> FALSE, certs |-> {}, keys |-> {},
   matching |-> TRUE, bind |-> "loopback", acknowledged |-> FALSE, origins |-> "none",
   proxies |-> "none", apns |-> "none", bundle |-> FALSE, team |-> FALSE, writable |-> TRUE,
   heartbeat |-> TRUE, interval |-> 1, timeout |-> 2, perConn |-> 1, perAddr |-> 2, grace |-> 1,
   deadline |-> 2, allowMissing |-> FALSE, allowQuery |-> FALSE, adminToken |-> FALSE,
   testSecret |-> FALSE, diagnostics |-> TRUE]

TlsEnvs ==
  {[Base EXCEPT !.tls = t, !.layout = l, !.explicitPaths = x, !.dist = d, !.certs = c, !.keys = k,
                !.matching = m] :
     t \in {"off", "required"}, l \in {"same", "above", "elsewhere"}, x \in BOOLEAN, d \in BOOLEAN,
     c \in SUBSET Dirs, k \in {{}, {"app"}, {"parent"}, Dirs}, m \in BOOLEAN}
BindEnvs ==
  {[Base EXCEPT !.tls = t, !.bind = b, !.acknowledged = a, !.certs = c, !.keys = c] :
     t \in {"off", "required"}, b \in {"loopback", "any"}, a \in BOOLEAN, c \in {{}, {"app"}}}
AuthEnvs ==
  {[Base EXCEPT !.target = t, !.auth = a, !.secret = s, !.requireApp = r, !.bundle = b, !.team = m,
                !.writable = w] :
     t \in {"fixed", "allowlist", "arbitrary"}, a \in {"none", "shared-secret"},
     s \in {"none", "short", "long"}, r \in BOOLEAN, b \in BOOLEAN, m \in BOOLEAN, w \in BOOLEAN}
TargetEnvs ==
  {[Base EXCEPT !.target = "allowlist", !.listed = l] : l \in {"none", "invalid"}}
    \union {[Base EXCEPT !.target = "arbitrary", !.ports = p] : p \in {"none", "invalid"}}
NumberEnvs ==
  {[Base EXCEPT !.heartbeat = h, !.interval = i, !.timeout = t, !.perConn = c, !.perAddr = a,
                !.grace = g, !.deadline = d] :
     h \in BOOLEAN, i \in 0..2, t \in 0..3, c \in 0..1, a \in 0..2, g \in 0..1, d \in 0..2}
FlagEnvs ==
  {[Base EXCEPT !.origins = o, !.allowMissing = m, !.allowQuery = q, !.garbled = g, !.retired = r] :
     o \in {"none", "listed", "malformed"}, m \in BOOLEAN, q \in BOOLEAN, g \in BOOLEAN,
     r \in BOOLEAN}
DiagnosticEnvs ==
  {[Base EXCEPT !.apns = a, !.adminToken = t, !.testSecret = s, !.diagnostics = d] :
     a \in {"none", "part", "all"}, t \in BOOLEAN, s \in BOOLEAN, d \in BOOLEAN}
ProxyEnvs ==
  {[Base EXCEPT !.proxies = p] : p \in {"none", "malformed", "all", "list"}}
AllEnvs == TlsEnvs \union BindEnvs \union AuthEnvs \union TargetEnvs \union NumberEnvs \union FlagEnvs
             \union DiagnosticEnvs \union ProxyEnvs

-----------------------------------------------------------------------------
Proxy == V4(<<10, 0, 0, 1>>)
ProxyRange == V4(<<10, 0, 0, 9>>)
Alice == V4(<<203, 0, 113, 5>>)
Mallory == V4(<<10, 0, 16, 1>>)

Lists ==
  [none |-> [all |-> FALSE, entries |-> {}], all |-> [all |-> TRUE, entries |-> {}],
   list |-> [all |-> FALSE,
             entries |-> {[net |-> V4(<<10, 0, 0, 0>>), prefix |-> 20],
                          [net |-> V6(<<64512, 0, 0, 0, 0, 0, 0, 1>>), prefix |-> None]}]]

Plain == [origin |-> "listed", authorization |-> "right", query |-> "absent",
          assertion |-> "verified", adminToken |-> "absent", testSecret |-> "absent",
          peer |-> Alice, headers |-> [realIp |-> None, hops |-> <<>>]]
CredentialRequests ==
  {[Plain EXCEPT !.origin = o, !.authorization = a, !.query = q, !.assertion = s] :
     o \in {"absent", "listed", "other"}, a \in {"absent", "right", "wrong"},
     q \in {"absent", "right", "wrong"}, s \in {"absent", "verified", "refused"}}
DiagnosticRequests ==
  {[Plain EXCEPT !.adminToken = t, !.testSecret = s] :
     t \in {"absent", "right", "wrong"}, s \in {"absent", "right", "wrong"}}
Hops == {<<>>} \union {<<a>> : a \in {Alice, ProxyRange, Mallory}}
        \union {<<a, b>> : a \in {Alice, Mallory}, b \in {Alice, Mapped(<<10, 0, 0, 9>>), Mallory}}
ProxiedRequests ==
  {[Plain EXCEPT !.peer = p, !.headers = [realIp |-> r, hops |-> h]] :
     p \in {Proxy, Mapped(<<10, 0, 0, 1>>), Alice, V6(<<64512, 0, 0, 0, 0, 0, 0, 1>>)},
     r \in {None, Mallory}, h \in Hops}
AllRequests == CredentialRequests \union DiagnosticRequests \union ProxiedRequests

-----------------------------------------------------------------------------
GoodFrame == [brace |-> TRUE, json |-> TRUE, type |-> "absent", connect |-> "absent",
              field |-> "debug", value |-> "bool", dirty |-> FALSE]
AllFrames ==
  UNION {{[GoodFrame EXCEPT !.type = t, !.field = f, !.value = v] :
            f \in DOMAIN Decoded(t), v \in Values} : t \in KnownTypes}
  \union {[GoodFrame EXCEPT !.type = t, !.dirty = TRUE] : t \in KnownTypes}
  \union {[GoodFrame EXCEPT !.brace = b, !.json = j, !.type = t, !.connect = c] :
            b \in BOOLEAN, j \in BOOLEAN, t \in {"absent", "other", "connect"},
            c \in {"absent", "falsy", "truthy"}}
  \union {[GoodFrame EXCEPT !.connect = "truthy", !.field = f, !.value = v] :
            f \in {"host", "port"}, v \in Values}

-----------------------------------------------------------------------------
(* The ends of the reserved ranges and their neighbours. *)
Edges == {0, 255, 256, 2559, 2560, 2815, 2816, 25663, 25664, 25727, 25728, 32511, 32512, 32767,
          32768, 43517, 43518, 43519, 44047, 44048, 44063, 44064, 49151, 49152, 49153, 49319,
          49320, 49321, 50705, 50706, 50707, 50708, 57343, 57344, 61439, 61440, 65535}
Octets == {<<e \div 256, e % 256, 0, 7>> : e \in Edges}
            \union {<<192, 0, c, 7>> : c \in {1, 2, 3, 255}}
Groups == {<<g, 0, 0, 0, 0, 0, 0, l>> :
             g \in {0, 1, 64511, 64512, 65023, 65024, 65151, 65152, 65215, 65216, 65279, 65280, 65535},
             l \in {1, 2}}
            \union {<<0, 0, 0, 0, 0, 0, 0, 0>>, <<0, 0, 0, 0, 0, 0, 1, 0>>}
Points == {V4(o) : o \in Octets} \union {Mapped(o) : o \in Octets}
            \union {V6(MappedGroups(o)) : o \in Octets} \union {V6(g) : g \in Groups}

NamedTarget == [host |-> Name, port |-> 23]
OtherTarget == [host |-> Name, port |-> 4000]
AllTargets == {NamedTarget, OtherTarget} \union {[host |-> Name, port |-> p] : p \in {22, 24, 3999, 4005, 4006}}
                \union {[host |-> a, port |-> 23] : a \in Points}
Samples == {V4(<<8, 8, 8, 8>>), V4(<<192, 168, 0, 1>>), Mapped(<<127, 0, 0, 1>>),
            V6(<<8193, 0, 0, 0, 0, 0, 0, 1>>), V6(<<64768, 0, 0, 0, 0, 0, 0, 1>>)}
AllAnswers == {<<>>} \union {<<a>> : a \in Samples} \union {<<a, b>> : a \in Samples, b \in Samples}
OneAllowed == {OtherTarget}
Ranges == {<<23, 23>>, <<4000, 4005>>, <<9, 8>>}
AllRoutes == {"health", "diagnostic", "challenge", "debug", "other"}
=============================================================================
