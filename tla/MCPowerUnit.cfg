SPECIFICATION Spec
CONSTANTS
  Module = {1, 2}
  Low = {1, 2}
  Channel = {1}
  Group <- MCGroup
  Sensor = {"P0"}
  MiddleBarrel = FALSE
  MaxFaults = 1
  Lists <- MCLists
  Bias = {TRUE}
  DisableOnOff = {TRUE}
  Polled = {"aux"}
  MaxCalls = 1
PROPERTIES OverheatedGoesOff CallsEnd
INVARIANTS OffStaysOff CleanPowerOn
