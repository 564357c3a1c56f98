SPECIFICATION FairSpec
CONSTANTS
  p1 = p1
  p2 = p2
  p3 = p3
  t1 = t1
  t2 = t2
  t3 = t3
  NoProc = NoProc
  Procs = {p1, p2, p3}
  Threads = {t1, t2, t3}
  ProcOf <- MCOneEach
  MaxAttempts = 1
  MaxDepth = 2
  MaxCount = 2
  MaxUpsets = 1
INVARIANTS
  CardExclusion
  CountMatchesNesting
PROPERTIES
  CallReturns
  ImplementsMutex
CHECK_DEADLOCK FALSE
