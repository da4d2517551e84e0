\* One rotation, nothing lost, and an agent with its defaults: the token is
\* probed before it is taken.
CONSTANTS
  Admins = {1}
  MaxRotations = 1
  RevokeTimeout = 2
  ClaimTimeout = 1
  CommandTtl = 3
  SkipProbe = FALSE
  Pinned = FALSE
  Faults = {}
  MaxFaults = 0
SPECIFICATION FairSpec
PROPERTY PushReachesAgent
