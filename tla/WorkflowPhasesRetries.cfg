SPECIFICATION FairSpec
CONSTANTS
  AutoMerge = FALSE
  FullRounds = FALSE
  MaxPlanRounds = 2
  MaxReviewRounds = 2
  TestRetries = 1
  DevRetries = 1
  CiAttempts = 1
  CiApiRetries = 1
  CiSameRetries = 1
  CiDiagnostics = 2
  Escalations = 1
  SettleRetries = 1
  NetRetries = 1
  InfraRetries = 3
  ParseRetries = 2
  AcceptRounds = 2
  ManualRetries = 1
  MaxRound = 2
  MaxPr = 1
  MaxEvents = 1
  Events <- FaultEvents
PROPERTIES
  AgentRunsStop
  RejectionReworked
CHECK_DEADLOCK FALSE
