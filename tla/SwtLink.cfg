SPECIFICATION FairSpec
CONSTANTS
  WriteCmd = WriteCmd
  None = None
  Procs = {p1}
  Channels = {c1, c2}
  SwtChannels = {c1, c2}
  ScaChannels = {c1}
  Addresses = {a1}
  MaxBatch = 2
  CntrMod = 2
  MaxPoll = 1
  MaxScaPoll = 2
  MaxOps = 3
  AlwaysSet = FALSE
  Late = TRUE
INVARIANTS
  AnswersMatch
  LinkSelected
PROPERTY
  CallEnds
CHECK_DEADLOCK FALSE
