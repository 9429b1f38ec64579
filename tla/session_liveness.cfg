SPECIFICATION FairSpec
CONSTANTS
  s1 = s1
  s2 = s2
  c1 = c1
  c2 = c2
  c3 = c3
  ip1 = ip1
  d1 = d1
  d2 = d2
  None = None
  UnknownIP = UnknownIP
  Socket = {s1, s2}
  Conn = {c1, c2}
  IP = {ip1}
  Device = {d1}
  SocketOf <- OneFrameEach
  AddressOf <- SharedAddress
  MaxPerIP = 2
  MaxGlobal = 2
  MaxPerDevice = 1
  ConnectTokens = {d1, None}
  ResumeTokens = {None}
PROPERTIES
  AbandonedIsReclaimed
  EndedIsForgotten
CHECK_DEADLOCK FALSE
