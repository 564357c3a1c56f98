SPECIFICATION Spec
CONSTANTS
  NOut = 2
  MaxPkt = 6
  MaxTimeout = 4
  MaxWords = 2
  Depth = 3
INVARIANTS
  PacketComplete
  NoFifoMisuse
PROPERTIES
  PortServed
