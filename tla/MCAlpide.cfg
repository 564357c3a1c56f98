SPECIFICATION Spec
CONSTANTS
  Chips <- MCChips
  Cases <- MCCases
  Samples <- MCSamples
  NRegion = 2
  W = 2
INVARIANTS
  FieldsKept
  ChipAsAsked
  ReadsAsAsked
CHECK_DEADLOCK FALSE
