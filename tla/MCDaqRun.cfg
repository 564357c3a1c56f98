SPECIFICATION MCSpec
CONSTANTS
    RdoList <- Rdos
    Conf <- All
    MaxUpsets = 2
INVARIANTS LeftAtEnd DecodedTrue
PROPERTIES TriggersMeetMode Ends
CHECK_DEADLOCK FALSE
