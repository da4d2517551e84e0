SPECIFICATION Spec
CONSTANTS
  AutoMerge = FALSE
  FullRounds = FALSE
  MaxPlanRounds = 1
  MaxReviewRounds = 1
  TestRetries = 0
  DevRetries = 0
  CiAttempts = 0
  CiApiRetries = 0
  CiSameRetries = 0
  CiDiagnostics = 1
  Escalations = 1
  SettleRetries = 0
  NetRetries = 0
  InfraRetries = 1
  ParseRetries = 1
  AcceptRounds = 2
  ManualRetries = 1
  MaxRound = 2
  MaxPr = 2
  MaxEvents = 2
  Events <- OperatorEvents
INVARIANTS
  TypeOK
  MergeWasDecided
  VerifiesNewestMerge
  CompletedIsVerified
CHECK_DEADLOCK FALSE
