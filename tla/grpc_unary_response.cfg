SPECIFICATION FairSpec
CONSTANTS
  Codes <- TwoCodes
  ServerStreams = FALSE
  MaxMessages = 1
PROPERTIES
  ResponseIsLogged
CHECK_DEADLOCK FALSE
