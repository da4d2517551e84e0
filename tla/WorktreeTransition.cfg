\* A workflow with a worktree of its own; the process is killed three times.
CONSTANTS
  Dedicated = TRUE
  Overlap = FALSE
  MayFail = TRUE
  MaxCrashes = 3
  MaxRequests = 3
SPECIFICATION FairSpec
INVARIANT TypeOK
INVARIANT CodingKeepsOffPrimary
INVARIANT ClosedJournalFreesBranch
PROPERTY ClosedWhenRestored
PROPERTY InterruptedSettles
CHECK_DEADLOCK FALSE
