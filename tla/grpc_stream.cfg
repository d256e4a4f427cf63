SPECIFICATION FairSpec
CONSTANTS
  Codes <- TwoCodes
  ServerStreams = TRUE
  MaxMessages = 3
INVARIANTS
  LoggedOnce
  FailureIsReal
  ErrorIsLogged
PROPERTIES
  EndIsLogged
CHECK_DEADLOCK FALSE
