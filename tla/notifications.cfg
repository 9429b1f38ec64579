SPECIFICATION NSpec
CONSTANTS
  Triggers <- SomeTriggers
  TypeOf <- Types
  Minute = 2
  Hour = 3
  MaxAge = 5
  TotalPerHour = 2
  None = None
  MaxTime = 7
  MaxNotes = 5
  MaxRequests = 2
  MaxConns = 3
INVARIANTS
  TriggerLimits
  ConnectionTracked
CHECK_DEADLOCK FALSE
