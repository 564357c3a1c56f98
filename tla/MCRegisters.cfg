SPECIFICATION MCSpec
CONSTANTS
  Consoles <- MCConsoles
  Cases <- MCCases
INVARIANTS
  SetIsRead
  EyeScanned
  ReportTrue
  GbtxTrue
CHECK_DEADLOCK FALSE
