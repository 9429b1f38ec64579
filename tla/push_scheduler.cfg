SPECIFICATION PSpec
CONSTANTS
  SilentPushInterval = 1
  ActivityPushInterval = 1
  ActivityAckTimeout = 1
  FallbackCooldown = 1
  MaxBackoff = 2
  MaxFallbacksPerHour = 1
  Hour = 3
  None = None
  Start = 2
  MaxTime = 5
  MaxSeq = 2
  MaxTracks = 2
INVARIANTS
  FallbacksCapped
  NoFallbackWhileWatching
CHECK_DEADLOCK FALSE
