\* Two clients, one of which may leave its job without releasing the lease.
SPECIFICATION FairSpec
CONSTANTS
  c1 = c1
  c2 = c2
  Clients = {c1, c2}
  EarlyReturners = {c2}
  None = None
  LockTimeout = 3
  Minute = 2
  HeartbeatTimeout = 1
INVARIANT TypeOK
INVARIANT ExclusiveWithinTerm
INVARIANT EntitledOwnsRow
PROPERTY ImplementsLease
PROPERTY LiveRowEndsByRelease
PROPERTY DeposedLearns
PROPERTY Failover
