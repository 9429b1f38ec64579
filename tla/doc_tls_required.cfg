SPECIFICATION AdmissionSpec
CONSTANTS
  None = None
  Envs <- AllEnvs
  TrustLists <- Lists
  Requests <- AllRequests
  Routes <- AllRoutes
  Frames <- AllFrames
  Targets <- AllTargets
  Answers <- AllAnswers
  DefaultTarget <- NamedTarget
  AllowedTargets <- OneAllowed
  PortRanges <- Ranges
INVARIANT
  TlsRequiredMeansTls
CHECK_DEADLOCK FALSE
