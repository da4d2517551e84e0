\* The worker of one process and the Git cleanup sweep of another: each may
\* be stopped or die, with the lease or without.
CONSTANTS
  w1 = w1
  w2 = w2
  k1 = k1
  p1 = p1
  p2 = p2
  Workers = {w1}
  Cleaners = {k1}
  Processes = {p1, p2}
  ProcessOf <- TwoProcesses
  Owner <- OwnNames
  None = None
  Timeout = 1
  MayStop = {p1}
  MayCrash = {p1, p2}
  Moves = {"pause", "resume", "stop", "done", "override"}
SPECIFICATION FairSpec
PROPERTY SweepBreaksNoAdvance
PROPERTY Recovered
PROPERTY LeakReaped
CHECK_DEADLOCK FALSE
