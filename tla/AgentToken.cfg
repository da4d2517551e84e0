\* One operator, two rotations.  One request, reply, write or process is lost, or
\* the agent's file edited, at any point; a replaced token and a command live a
\* tick longer than two deliveries, the least that one fault allows.
CONSTANTS
  Admins = {1}
  MaxRotations = 2
  RevokeTimeout = 5
  ClaimTimeout = 2
  CommandTtl = 5
  SkipProbe = TRUE
  Pinned = FALSE
  Faults = {"request", "reply", "kill", "disk", "persist", "crash", "report", "edit", "mismatch"}
  MaxFaults = 1
SPECIFICATION FairSpec
INVARIANT TypeOK
INVARIANT AgentKeepsAccess
INVARIANT ConfirmedIsFinal
INVARIANT OneLastingToken
INVARIANT PushTakenInTime
PROPERTY PushReachesAgent
