SPECIFICATION Spec
CONSTANTS
  Codes <- TwoCodes
  ServerStreams = TRUE
  MaxMessages = 1
INVARIANTS
  LoggedStatusIsFinal
CHECK_DEADLOCK FALSE
