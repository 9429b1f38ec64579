SPECIFICATION Spec
CONSTANTS
  s1 = s1
  s2 = s2
  c1 = c1
  c2 = c2
  c3 = c3
  ip1 = ip1
  d1 = d1
  d2 = d2
  None = None
  UnknownIP = UnknownIP
  Socket = {s1, s2}
  Conn = {c1, c2, c3}
  IP = {ip1, UnknownIP}
  Device = {d1, d2}
  SocketOf <- TwoFramesAndOne
  AddressOf <- OneUnknown
  MaxPerIP = 1
  MaxGlobal = 2
  MaxPerDevice = 1
  ConnectTokens = {d1, None}
  ResumeTokens = {None, d2}
CONSTRAINT TokensInFixedMode
SYMMETRY FrameSymmetry
INVARIANTS
  TypeOK
  CountersExact
  CapacityBounded
  IndexesExact
  ClientlessIsStamped
  PushOnlyWhenAway
PROPERTIES
  ImplementsLease
CHECK_DEADLOCK FALSE
