\* Two processes with a worker each, one of which may be killed.
CONSTANTS
  w1 = w1
  w2 = w2
  k1 = k1
  p1 = p1
  p2 = p2
  Workers = {w1, w2}
  Cleaners = {}
  Processes = {p1, p2}
  ProcessOf <- TwoProcesses
  Owner <- OwnNames
  None = None
  Timeout = 1
  MayStop = {}
  MayCrash = {p1}
  Moves = {"retry", "resume"}
SPECIFICATION Spec
INVARIANTS TypeOK TermOwnsLock ExclusiveWork EntryHasWorker
PROPERTIES HolderUndisturbed ImplementsLease
CHECK_DEADLOCK FALSE
