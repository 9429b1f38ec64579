SPECIFICATION FairSpec
CONSTANTS
  Modes = {"plain", "prefer", "required"}
INVARIANTS
  OneDeadline
  NoSocketLeaks
  NoSilentDowngrade
PROPERTIES
  SettlesOnce
  DialEnds
CHECK_DEADLOCK FALSE
