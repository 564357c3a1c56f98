SPECIFICATION MCSpec
CONSTANTS
  a1 = a1
  a2 = a2
  d1 = d1
  d2 = d2
  Reset = Reset
  Unknown = Unknown
  MaxRetries = 2
  MaxCmds = 4
  MaxBacklog = 1
  MaxRaw = 1
  Fails = TRUE
  Late = FALSE
  Orderly = TRUE
SYMMETRY Symmetry
INVARIANTS
  SentOnce
  ResultsMatch
  Prefetched
CHECK_DEADLOCK FALSE
