SPECIFICATION Spec
CONSTANTS
  Slots <- MCSlots
  Bad <- MCBad
  Known <- MCKnown
  Cases <- MCCases
  Versions = {1, 2}
  MAX_ALLOWED_REPROGRAM_TRIES = 1
INVARIANTS
  RecordTrue
  FlashedIsUsed
PROPERTIES
  LoopHarmless
CHECK_DEADLOCK FALSE
