CONSTANTS
  k1 = k1
  k2 = k2
  k3 = k3
  None = None
  Keys <- TheKeys
  Earlier <- EarlierFiles
  Start = 3
  NonceTTL = 1
  MaxChallenges = 1
  KeyTTL = 2
  MaxAttestedKeys = 2
  SaveDelay = 1
  MaxTime = 6
  MaxNonces = 2
  MaxBodies = 1
  MaxCount = 2
  MaxLives = 2
  Grace = 1
  ListenerWait = 1
  Deadline = 2
  MaxConns = 1
SPECIFICATION LifeSpec
INVARIANTS
  NoReplay
  AckedIsSavedOrPending
  DrainedExitKeepsKeys
  ExitByDeadline
PROPERTIES
  KeysKept
CHECK_DEADLOCK FALSE
