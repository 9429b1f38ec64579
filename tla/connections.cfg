SPECIFICATION ConnectionsSpec
CONSTANTS
  c1 = c1  c2 = c2  c3 = c3  a1 = a1  a2 = a2
  Conns = {c1, c2, c3}
  Addresses = {a1, a2}
  AddressOf <- SharedAddress
  ConnMax = 2  AddrMax = 3  Window = 2
  MaxFailures = 2  FailureWindow = 2
  MaxTracked = 2
  Interval = 1  Timeout = 3  PongDelay = 2
  MaxClock = 5
  None = None
CONSTRAINT OneLimitAtATime
INVARIANTS
  RatesExact
  ThrottleExact
  PeersReclaimed
PROPERTIES
  AnsweringPeersKept
CHECK_DEADLOCK FALSE
