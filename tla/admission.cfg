SPECIFICATION AdmissionSpec
CONSTANTS
  None = None
  Envs <- AllEnvs
  TrustLists <- Lists
  Requests <- AllRequests
  Routes <- AllRoutes
  Frames <- AllFrames
  Targets <- AllTargets
  Answers <- AllAnswers
  DefaultTarget <- NamedTarget
  AllowedTargets <- OneAllowed
  PortRanges <- Ranges
INVARIANTS
  StartsAsConfigured
  ClientCannotForge
  CredentialsDecide
  DialledIsPublic
  DispatchedIsUsable
CHECK_DEADLOCK FALSE
