SPECIFICATION Spec
CONSTANTS
  h = h
  a = a
  b = b
  Node = {h, a, b}
  Msg <- MCMsg
  NoMsg = NoMsg
  OneShot = {h}
  RetransmitMax = 3
  TecStep = 2
  Passive = 3
  BusOff = 4
  RecJump = 2
  Recovery = 1
  CountMax = 5
  MaxFaults = 2
INVARIANTS DoneMeansReceived CleanBus
PROPERTIES Reported
CHECK_DEADLOCK FALSE
