SPECIFICATION LSpec
CONSTANTS
  s1 = s1
  s2 = s2
  c1 = c1
  l1 = l1
  l2 = l2
  l3 = l3
  ip1 = ip1
  None = None
  UnknownIP = UnknownIP
  Socket = {s1, s2}
  Conn = {c1}
  IP = {ip1}
  Device = {}
  SocketOf <- TypedOnSecond
  AddressOf <- SharedAddress
  MaxPerIP = 2
  MaxGlobal = 2
  MaxPerDevice = 1
  ConnectTokens = {None}
  ResumeTokens = {None}
  LConn = {l1, l2, l3}
  LSocketOf <- TwoLegacyAndOne
  MaxTimers = 2
SYMMETRY LegacySymmetry
INVARIANTS
  SharedCapacityExact
PROPERTIES
  ClosedIsTornDown
CHECK_DEADLOCK FALSE
