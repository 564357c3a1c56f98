SPECIFICATION Spec
CONSTANTS
  Nodes = {n1, n2}
  Hosts = {h1, h2}
  Broadcast = Broadcast
  Addresses = {1}
  Unmapped = {}
  NoFrame = NoFrame
  FifoDepth = 1
  MaxOps = 2
  Unsolicited = {"ALERT"}
  MaxUnsolicited = 1
  MaxFaults = 1
  AllNodes = AllNodes
  Unused = Unused
SYMMETRY Symmetry
INVARIANTS
  NoSilentDrop
PROPERTIES
  AnswerIsMine
  ReadSeesAckedWrites
CHECK_DEADLOCK FALSE
